---- MODULE Spec2Model ----
(***************************************************************************)
(* Model of the Slack "export thread as PDF" shortcut.                     *)
(*                                                                         *)
(*   Spec       the export_pdf handler of src/unnamed/part_004 (same       *)
(*              control flow in src/dist/index.js): thread read, image     *)
(*              collection, PDF build loop, and the delivery sequence      *)
(*              reserve -> PUT -> finalize -> verify -> fallback.          *)
(*   SpecIndex  the export_pdf handler of src/src/index.ts: grouping,      *)
(*              the 2-up layout (ensureSpace / wrap / drawTile) and the    *)
(*              single files.uploadV2 delivery.                            *)
(*                                                                         *)
(* An action is one segment of the async handler: the awaited call, its    *)
(* result (returned value or raised exception, chosen with \E) and the     *)
(* synchronous code that follows up to the next awaited call.              *)
(***************************************************************************)
EXTENDS Integers, Sequences, FiniteSets, TLC

\* ------------------------------------------------------------ bounds
MaxMsgs == 2        \* messages in the thread handed back by conversations.replies
MaxBytes == 2       \* largest byte length of a buffer (pdf.save(), re-download)
MaxImages == 4      \* image files in the thread
MaxWords == 10      \* words of a text handed to wrap on its own

\* -------------------------------------------------- program constants
VerifyAttempts == 8       \* part_004:353   for (let i = 0; i < 8; i++)
ProgressEvery == 4        \* part_004:294   i % 4 === 3

VARIABLES
  pc,          \* position of the handler (the call it is about to await)
  thrown,      \* the handler ended by an exception that nothing caught
  log,         \* every chat.postMessage / chat.update call made, in order
  messages,    \* replies.messages
  imgs,        \* part_004: the flat list of { caption, fileId }
  i,           \* part_004: index of the build loop / of the verify loop
  cells,       \* part_004: the document being built: what was drawn per image
  col,         \* part_004: column of the next cell (0 or 1)
  curY,        \* part_004: top of the current row of cells
  pages,       \* part_004: number of pages added (the current page is the last)
  lastFetch,   \* build loop: what the last image download met and returned
  byteLen,     \* bodyBuf.length (bodyBuf is immutable: its length stands for it)
  reserved,    \* length declared to files.getUploadURLExternal (0: not called)
  sent,        \* lengths of the bodies handed to the PUT and to files.uploadV2
  dlOk,        \* verify loop: a re-download matched
  permalink,   \* verify loop: info.file.permalink of the last poll, or FALSE
  fid,         \* fallback: the uploaded file id is known
  calls,       \* how many times each collaborator was called
  lastPoll,    \* what the last verification poll got back
  matched,     \* history: some poll got an ok response of exactly byteLen bytes
  sleeps,      \* history: number of 1-second waits
  attached,    \* documents attached to the destination thread
  outcome,     \* terminal outcome decided by the handler
  failedStage, \* the stage whose failure was reported
  err,         \* the error code / status the failed stage reported
  \* src/src/index.ts only
  ADD_SPANISH, \* process.env.ADD_SPANISH === "1"
  groups,      \* the groups { caption, captionEs, fileIds }
  idx,         \* index of the group being laid out
  page,        \* number of pages added so far (the current page is the last)
  y,           \* vertical cursor
  placed,      \* every drawText / drawImage made, in order
  hLeft,       \* height returned by drawTile for the left tile of the row
  fetches,     \* every downloadOriginal call made: the file, and whether its image was drawn
  \* src/unnamed/part_003 only (it shares col, curY, page, placed, groups)
  nextY,       \* part_003: top of the next image of the group being laid out
  xGroup,      \* part_003: `x`, the left edge computed at the start of the group
  \* a call of wrap / wrapText on its own
  wrapIn,      \* the function called and its arguments
  wrapOut,     \* the lines it returned
  \* the scaling of drawTile on its own
  scaleIn,     \* img.width, img.height
  scaleOut,    \* w, h
  \* a call of sanitizeForFilename on its own
  nameIn,      \* its argument
  nameOut,     \* the string it returned
  \* two export_pdf requests in one process
  active,      \* the request whose handler is running (1 or 2)
  parked,      \* the locals of the other request, waiting at an await
  \* follow_up_submit
  followIn,    \* the choice, the clock readings and the time zones
  followOut,   \* post_at, and the calls made after it was computed
  \* POST /slack/commands
  sigIn,       \* the request's headers and the clock
  sigOut       \* what verifySlackSig did and what was answered

thread == <<messages, imgs>>
build == <<i, cells, col, curY, pages, lastFetch, byteLen>>
upload == <<reserved, sent, calls, attached>>
verify == <<dlOk, permalink, lastPoll, matched, sleeps>>
result == <<outcome, failedStage, err, fid>>
p3only == <<nextY, xGroup>>
wrapping == <<wrapIn, wrapOut>>
scaling == <<scaleIn, scaleOut>>
naming == <<nameIn, nameOut>>
conc == <<active, parked>>
following == <<followIn, followOut>>
signing == <<sigIn, sigOut>>
alone == <<wrapping, scaling, naming, conc, following, signing>>
ixonly == <<ADD_SPANISH, groups, idx, page, y, placed, hLeft, fetches, p3only, alone>>

vars == <<pc, thrown, log, thread, build, upload, verify, result, ixonly>>

\* ------------------------------------------------------------ strings
\* A string is a sequence of tokens: n > 0 is a word n units wide (at size 1),
\* 0 is a run of whitespace.
IsSpace(t) == t = 0

RECURSIVE TrimLeft(_)
TrimLeft(s) == IF s # <<>> /\ IsSpace(Head(s)) THEN TrimLeft(Tail(s)) ELSE s

RECURSIVE TrimRight(_)
TrimRight(s) ==
  IF s # <<>> /\ IsSpace(s[Len(s)]) THEN TrimRight(SubSeq(s, 1, Len(s) - 1)) ELSE s

\* String.prototype.trim
trim(s) == TrimRight(TrimLeft(s))

\* font metrics, in units of the font size: a space, and the "N." prefix
SpaceW == 1
NumW == 2

Max(a, b) == IF a >= b THEN a ELSE b

\* text.split(/\s+/): the words of a string, an empty word (0) where the
\* string is empty or starts or ends with whitespace
RECURSIVE Split(_)
Split(s) ==
  IF s = <<>> THEN <<0>>
  ELSE IF IsSpace(Head(s)) THEN <<0>> \o Split(Tail(s))
  ELSE IF Len(s) >= 2 /\ IsSpace(s[2]) THEN <<Head(s)>> \o Split(Tail(Tail(s)))
  ELSE IF Len(s) >= 2 THEN <<Head(s)>> \o Split(Tail(s))
  ELSE <<Head(s)>>

\* A line of text is the sequence of its words joined by single spaces;
\* <<>> is the empty string (falsy).
Str(w) == IF w = 0 THEN <<>> ELSE <<w>>

RECURSIVE SumSeq(_)
SumSeq(s) == IF s = <<>> THEN 0 ELSE Head(s) + SumSeq(Tail(s))

\* font.widthOfTextAtSize(line, size)
widthOfTextAtSize(line, size) ==
  IF line = <<>> THEN 0 ELSE size * (SumSeq(line) + SpaceW * (Len(line) - 1))

\* the for loop of wrap: returns lines and cur at the end or at the break
RECURSIVE wrapLoop(_, _, _, _, _, _)
wrapLoop(words, lines, cur, maxWidth, size, maxLines) ==
  IF words = <<>> THEN [lines |-> lines, cur |-> cur]
  ELSE LET w == Head(words)
           test == IF cur # <<>> THEN cur \o <<w>> ELSE Str(w)
       IN IF widthOfTextAtSize(test, size) <= maxWidth
          THEN wrapLoop(Tail(words), lines, test, maxWidth, size, maxLines)
          ELSE LET pushed == IF cur # <<>> THEN Append(lines, cur) ELSE lines
               IN IF Len(pushed) >= maxLines - 1
                  THEN [lines |-> pushed, cur |-> Str(w)]
                  ELSE wrapLoop(Tail(words), pushed, Str(w), maxWidth, size, maxLines)

\* mutant: wrap without `if (lines.length >= maxLines - 1) break`
wrap_NoBreak(text, maxWidth, size, maxLines) ==
  LET words == Split(text)
      r == wrapLoop(words, <<>>, <<>>, maxWidth, size, Len(words) + 2)
  IN IF r.cur # <<>> THEN Append(r.lines, r.cur) ELSE r.lines

\* wrap(text, maxWidth, size, maxLines)
wrap(text, maxWidth, size, maxLines) ==
  LET r == wrapLoop(Split(text), <<>>, <<>>, maxWidth, size, maxLines)
  IN IF r.cur # <<>> THEN Append(r.lines, r.cur) ELSE r.lines

\* no call of wrap on its own is in progress
NoWrap == [fn |-> "none", text |-> <<>>, maxWidth |-> 0, size |-> 0, maxLines |-> 0]

\* ----------------------------------------------------------- messages
\* A file of a message: id, whether its mimetype matches /^image\//, the
\* initial comment and the title.  A message: text and files.
File(id, image) == [id |-> id, image |-> image, comment |-> <<>>, title |-> <<4>>]
Msg(text, files) == [text |-> text, files |-> files]

\* mutant: the candidates are not trimmed before the `||`
CaptionOf_NoTrim(m) ==
  IF m.text # <<>> THEN m.text
  ELSE IF m.files[1].comment # <<>> THEN m.files[1].comment
  ELSE m.files[1].title

\* caption = text.trim() || files[0].initial_comment.comment.trim() || files[0].title.trim()
CaptionOf(m) ==
  IF trim(m.text) # <<>> THEN trim(m.text)
  ELSE IF trim(m.files[1].comment) # <<>> THEN trim(m.files[1].comment)
  ELSE trim(m.files[1].title)

\* ids of the image files of a message, in attachment order
RECURSIVE ImageIds(_)
ImageIds(files) ==
  IF files = <<>> THEN <<>>
  ELSE (IF Head(files).image THEN <<Head(files).id>> ELSE <<>>) \o ImageIds(Tail(files))

\* part_004: one { caption, fileId } per image file, messages without files skipped
RECURSIVE CollectImgs(_)
CollectImgs(ms) ==
  IF ms = <<>> THEN <<>>
  ELSE LET m == Head(ms)
           ids == ImageIds(m.files)
       IN (IF m.files = <<>> THEN <<>>
           ELSE [k \in 1..Len(ids) |-> [caption |-> CaptionOf(m), fileId |-> ids[k]]])
          \o CollectImgs(Tail(ms))

\* The shapes of message the thread read hands back: the k-th message of a
\* thread has files with ids 10k+1, 10k+2.
MsgShapes(k) ==
  { Msg(<<3, 0, 2>>, <<>>),
    Msg(<<>>, <<File(10 * k + 1, FALSE)>>),
    Msg(<<3>>, <<File(10 * k + 1, TRUE)>>),
    Msg(<<>>, <<File(10 * k + 1, TRUE), File(10 * k + 2, TRUE)>>),
    Msg(<<0, 3>>, <<File(10 * k + 1, FALSE), File(10 * k + 2, TRUE)>>) }

\* number of image files in a thread
RECURSIVE TotalImages(_)
TotalImages(ms) ==
  IF ms = <<>> THEN 0 ELSE Len(ImageIds(Head(ms).files)) + TotalImages(Tail(ms))

Threads ==
  UNION { { ms \in [1..n -> UNION { MsgShapes(k) : k \in 1..n }] :
              /\ \A k \in 1..n : ms[k] \in MsgShapes(k)
              /\ TotalImages(ms) <= MaxImages } : n \in 0..MaxMsgs }

\* --------------------------------------------------- progress messages
\* One entry per chat.postMessage / chat.update call: the api, the kind of
\* text, its argument (step number, or failed stage), the error code shown,
\* and whether the call was delivered (FALSE: it raised).
Entry(api, kind, arg, code, ok) ==
  [api |-> api, kind |-> kind, arg |-> arg, code |-> code, delivered |-> ok]

\* mutant: a stage notification is posted as a new message
Step_Posted(n, ok) == Entry("chat.postMessage", "step", n, "", ok)

\* chat.update({ ts: progress_ts, text: "Step n/N: ..." })
Step(n, ok) == Entry("chat.update", "step", n, "", ok)

\* `${x?.error || "unknown_error"}`
ErrText(e) == IF e = "" THEN "unknown_error" ELSE e

\* what a collaborator reports when it answers not-ok
ErrorCodes == {"", "invalid_auth"}
\* what the PUT reports when it answers a non-success status
HttpStatuses == {"500 Internal Server Error"}

NoCalls == [reserve |-> 0, put |-> 0, finalize |-> 0, info |-> 0, fetch |-> 0,
            uploadV2 |-> 0]
Called(c) == [calls EXCEPT ![c] = @ + 1]

\* What one image download can meet: files.info raises, answers without a
\* url or with one; then the GET raises, answers a non-success status or ok;
\* then res.arrayBuffer() raises or hands the bytes ("none": not reached).
FetchOutcomes ==
  [info : {"raise", "nourl"}, res : {"none"}, ab : {"none"}]
  \cup [info : {"url"}, res : {"raise", "notok"}, ab : {"none"}]
  \cup [info : {"url"}, res : {"ok"}, ab : {"raise", "ok"}]

\* the statements inside the try of downloadOriginal / downloadBuffer
tryDownload(f) ==
  IF f.info = "raise" THEN "raise"
  ELSE IF f.info = "nourl" THEN "null"
  ELSE IF f.res = "raise" THEN "raise"
  ELSE IF f.res = "notok" THEN "null"
  ELSE IF f.ab = "raise" THEN "raise"
  ELSE "bytes"

\* the record of one download: what it met and what it handed back
Fetched(f, out) == [info |-> f.info, res |-> f.res, ab |-> f.ab, out |-> out]

\* no second request
NoRequest == [pc |-> "none"]

\* no follow_up_submit
NoFollowUp == [choice |-> "none"]

\* no download was made yet
NoFetch == [info |-> "none", res |-> "none", ab |-> "none", out |-> "none"]

NoPoll == [info |-> "none", dl |-> FALSE, res |-> "none", len |-> 0]

\* the handler returns
Return == pc' = "end" /\ thrown' = FALSE
\* an awaited call raised outside any try: the handler's promise rejects
Throw == pc' = "end" /\ thrown' = TRUE

Init ==
  /\ pc = "start"
  /\ thrown = FALSE
  /\ log = <<>>
  /\ messages = <<>>
  /\ imgs = <<>>
  /\ i = 0
  /\ cells = <<>>
  /\ col = 0
  /\ curY = 0
  /\ pages = 0
  /\ lastFetch = NoFetch
  /\ byteLen = 0
  /\ reserved = 0
  /\ sent = <<>>
  /\ dlOk = FALSE
  /\ permalink = FALSE
  /\ fid = FALSE
  /\ calls = NoCalls
  /\ lastPoll = NoPoll
  /\ matched = FALSE
  /\ sleeps = 0
  /\ attached = 0
  /\ outcome = "none"
  /\ failedStage = "none"
  /\ err = ""
  /\ ADD_SPANISH = FALSE
  /\ groups = <<>>
  /\ idx = 0
  /\ page = 0
  /\ y = 0
  /\ placed = <<>>
  /\ hLeft = 0
  /\ fetches = <<>>
  /\ nextY = 0
  /\ xGroup = 0
  /\ wrapIn = NoWrap
  /\ wrapOut = <<>>
  /\ scaleIn = <<0, 0>>
  /\ scaleOut = <<>>
  /\ nameIn = <<>>
  /\ nameOut = <<>>
  /\ active = 1
  /\ parked = NoRequest
  /\ followIn = NoFollowUp
  /\ followOut = <<>>
  /\ sigIn = NoRequest
  /\ sigOut = <<>>

\* ======================================================================
\* src/unnamed/part_004: export_pdf
\* ======================================================================

\* await client.chat.update({ ts: progress_ts, text }) followed by `next`
\* ("end": the handler returns).  A raised exception is not caught.
chatUpdate(kind, arg, code, next) ==
  \E ok \in BOOLEAN :
    /\ log' = Append(log, Entry("chat.update", kind, arg, code, ok))
    /\ IF ok THEN pc' = next /\ thrown' = FALSE ELSE Throw

\* Step 0: chat.postMessage "Step 0/7: Starting export"
Start ==
  /\ pc = "start"
  /\ \E ok \in BOOLEAN :
       /\ log' = Append(log, Entry("chat.postMessage", "step", 0, "", ok))
       /\ IF ok THEN pc' = "upd1" /\ thrown' = FALSE ELSE Throw
  /\ UNCHANGED <<thread, build, upload, verify, result, ixonly>>

\* Step 1: chat.update "Step 1/7: Reading thread"
UpdReading ==
  /\ pc = "upd1"
  /\ chatUpdate("step", 1, "", "replies")
  /\ UNCHANGED <<thread, build, upload, verify, result, ixonly>>

\* conversations.replies; messages = replies.messages || []
Replies ==
  /\ pc = "replies"
  /\ \/ /\ \E ms \in Threads : messages' = ms
        /\ pc' = "upd2"
        /\ thrown' = FALSE
     \/ /\ Throw
        /\ UNCHANGED messages
  /\ UNCHANGED <<log, imgs, build, upload, verify, result, ixonly>>

\* Step 2: chat.update "Step 2/7: Collecting images", then the collection
\* loop and the `if (!imgs.length)` test
UpdCollecting ==
  /\ pc = "upd2"
  /\ \E ok \in BOOLEAN :
       /\ log' = Append(log, Step(2, ok))
       /\ IF ok
          THEN /\ imgs' = CollectImgs(messages)
               /\ thrown' = FALSE
               /\ IF imgs' = <<>>
                  THEN pc' = "upd_noimages" /\ outcome' = "NoImages"
                  ELSE pc' = "upd3" /\ outcome' = outcome
          ELSE Throw /\ UNCHANGED <<imgs, outcome>>
  /\ UNCHANGED <<messages, build, upload, verify, failedStage, err, fid, ixonly>>

\* mutant: the `return` after the notification is missing
UpdNoImages_NoReturn ==
  /\ pc = "upd_noimages"
  /\ chatUpdate("noimages", 0, "", "upd3")
  /\ UNCHANGED <<thread, build, upload, verify, result, ixonly>>

\* chat.update "No images found in this thread."; return
UpdNoImages ==
  /\ pc = "upd_noimages"
  /\ chatUpdate("noimages", 0, "", "end")
  /\ UNCHANGED <<thread, build, upload, verify, result, ixonly>>

\* page geometry of part_004 (pageW, pageH and margin are the same numbers in
\* index.ts and are defined once)
pageW == 612
pageH == 792
margin == 36
p4_gutter == 18
colW == (pageW - margin * 2 - p4_gutter) \div 2
p4_captionSize == 10
lineHeight == p4_captionSize + 2
p4_maxCaptionLines == 6
captionBlockH == p4_maxCaptionLines * lineHeight + 6
imageMaxH == 220
cellH == captionBlockH + imageMaxH + 12

\* Step 3: chat.update "Step 3/7: Building PDF for N images", then the
\* document set-up and the first iteration up to `await downloadBuffer`
UpdBuilding ==
  /\ pc = "upd3"
  /\ \E ok \in BOOLEAN :
       /\ log' = Append(log, Step(3, ok))
       /\ IF ok THEN /\ pc' = "download" /\ thrown' = FALSE /\ i' = 0
                     /\ pages' = 1 /\ curY' = pageH - margin - 18 /\ col' = 0
                ELSE Throw /\ UNCHANGED <<i, col, curY, pages>>
  /\ UNCHANGED <<thread, cells, lastFetch, byteLen, upload, verify, result,
                 ixonly>>

\* downloadBuffer: try { ... } catch { return null; }
downloadBuffer(f) ==
  LET r == tryDownload(f) IN IF r = "raise" THEN "null" ELSE r

\* wrapText(text, maxWidth, maxLines): the loop of wrap at captionSize, then
\* lines.slice(0, maxLines)
wrapText(text, maxWidth, maxLines) ==
  LET lines == wrap(text, maxWidth, p4_captionSize, maxLines)
  IN SubSeq(lines, 1, IF Len(lines) < maxLines THEN Len(lines) ELSE maxLines)

\* sizes an embedded image can have; both scale to whole points
P4ImageSizes == {<<261, 220>>, <<522, 220>>}

\* scale = Math.min(colW / iw, imageMaxH / ih); w = iw * scale, h = ih * scale
fit(iw, ih) ==
  IF colW * ih <= imageMaxH * iw
  THEN [w |-> colW, h |-> (ih * colW) \div iw]
  ELSE [w |-> (iw * imageMaxH) \div ih, h |-> imageMaxH]

\* mutant: embedPng is tried first, and embedJpg if that failed
drawCell_PngFirst(it, pg, x, top, buf, jpg, png, size) ==
  LET wrapped == wrapText(it.caption, colW, p4_maxCaptionLines)
      afterCaptionY == top - lineHeight * (Len(wrapped) + 1) - 6
      img == buf # "null" /\ (jpg \/ png)
      wh == IF img THEN fit(size[1], size[2]) ELSE [w |-> 0, h |-> 0]
  IN [fileId |-> it.fileId, page |-> pg, x |-> x, top |-> top,
      wrapped |-> wrapped, afterCaptionY |-> afterCaptionY,
      tried |-> IF buf = "null" THEN <<>>
                ELSE IF png THEN <<"png">> ELSE <<"png", "jpg">>,
      kind |-> IF img THEN "image"
               ELSE IF buf # "null" THEN "[unsupported image format]"
               ELSE "[failed to download image]",
      y |-> IF img THEN afterCaptionY - wh.h ELSE afterCaptionY - lineHeight,
      w |-> wh.w, h |-> wh.h]

\* what one iteration draws: the caption lines from `top` down, then embedJpg,
\* then embedPng if that failed, then the image or one of the two fallback texts
drawCell(it, pg, x, top, buf, jpg, png, size) ==
  LET wrapped == wrapText(it.caption, colW, p4_maxCaptionLines)
      afterCaptionY == top - lineHeight * (Len(wrapped) + 1) - 6
      img == buf # "null" /\ (jpg \/ png)
      wh == IF img THEN fit(size[1], size[2]) ELSE [w |-> 0, h |-> 0]
  IN [fileId |-> it.fileId, page |-> pg, x |-> x, top |-> top,
      wrapped |-> wrapped, afterCaptionY |-> afterCaptionY,
      tried |-> IF buf = "null" THEN <<>>
                ELSE IF jpg THEN <<"jpg">> ELSE <<"jpg", "png">>,
      kind |-> IF img THEN "image"
               ELSE IF buf # "null" THEN "[unsupported image format]"
               ELSE "[failed to download image]",
      y |-> IF img THEN afterCaptionY - wh.h ELSE afterCaptionY - lineHeight,
      w |-> wh.w, h |-> wh.h]

\* the end of one iteration: the column switch, closing the row after the
\* right-hand cell, and the next image or the end of the loop
NextImage(c, top, afterCaptionY) ==
  /\ col' = IF c = 0 THEN 1 ELSE 0
  /\ curY' = IF c = 0 THEN top ELSE afterCaptionY - imageMaxH - 12
  /\ i' = i + 1
  /\ pc' = IF i + 1 < Len(imgs) THEN "download" ELSE "save"

\* one iteration of the loop up to the progress update: x, the page break,
\* the caption, await downloadBuffer(it.fileId) and the drawing of the cell
Download ==
  /\ pc = "download"
  /\ LET x == margin + (IF col = 0 THEN 0 ELSE colW + p4_gutter)
         brk == curY - cellH < margin
         pg == IF brk THEN pages + 1 ELSE pages
         top == IF brk THEN pageH - margin - 18 ELSE curY
         c == IF brk THEN 0 ELSE col
     IN \E f \in FetchOutcomes, jpg \in BOOLEAN, png \in BOOLEAN,
           size \in P4ImageSizes :
          LET buf == downloadBuffer(f)
              cell == drawCell(imgs[i + 1], pg, x, top, buf, jpg, png, size)
          IN /\ cells' = Append(cells, cell)
             /\ lastFetch' = Fetched(f, buf)
             /\ pages' = pg
             /\ IF i % ProgressEvery = ProgressEvery - 1
                THEN pc' = "upd_progress" /\ i' = i /\ col' = c /\ curY' = top
                ELSE NextImage(c, top, cell.afterCaptionY)
  /\ UNCHANGED <<thrown, log, thread, byteLen, upload, verify, result, ixonly>>

\* chat.update "Step 3/7: Building PDF (i+1/N)" after every fourth image
UpdProgress ==
  /\ pc = "upd_progress"
  /\ \E ok \in BOOLEAN :
       /\ log' = Append(log, Step(3, ok))
       /\ IF ok THEN NextImage(col, curY, cells[Len(cells)].afterCaptionY)
                     /\ thrown' = FALSE
                ELSE Throw /\ UNCHANGED <<i, col, curY>>
  /\ UNCHANGED <<thread, cells, pages, lastFetch, byteLen, upload, verify, result,
                 ixonly>>

\* pdfBytes = await pdf.save(); bodyBuf = Buffer.from(pdfBytes);
\* byteLen = bodyBuf.length.  The document is now its bytes: the drawing
\* record is dropped and the buffer is never written again.
Save ==
  /\ pc = "save"
  /\ \E n \in 1..MaxBytes : byteLen' = n
  /\ cells' = <<>>
  /\ lastFetch' = NoFetch
  /\ pc' = "upd4"
  /\ UNCHANGED <<thrown, log, thread, i, col, curY, pages, upload, verify,
                 result, ixonly>>

\* Step 4: chat.update "Step 4/7: Initializing upload"
UpdInit ==
  /\ pc = "upd4"
  /\ chatUpdate("step", 4, "", "reserve")
  /\ UNCHANGED <<thread, build, upload, verify, result, ixonly>>

\* mutant: the declared length counts one byte more than the buffer holds
ReserveLength_OffByOne == byteLen + 1

\* the length handed to files.getUploadURLExternal
ReserveLength == byteLen
\* the body of the PUT and the file of files.uploadV2: bodyBuf
BodyLength == byteLen

\* files.getUploadURLExternal({ filename, length: byteLen }); `if (!up?.ok)`
Reserve ==
  /\ pc = "reserve"
  /\ calls' = Called("reserve")
  /\ reserved' = ReserveLength
  /\ \/ /\ pc' = "put" /\ thrown' = FALSE
        /\ UNCHANGED <<outcome, failedStage, err>>
     \/ /\ \E e \in ErrorCodes : err' = e
        /\ outcome' = "Failed" /\ failedStage' = "reserve"
        /\ pc' = "upd_init_failed" /\ thrown' = FALSE
     \/ /\ Throw
        /\ UNCHANGED <<outcome, failedStage, err>>
  /\ UNCHANGED <<log, thread, build, sent, attached, verify, fid, ixonly>>

\* mutant: the `return` after the notification is missing
UpdInitFailed_NoReturn ==
  /\ pc = "upd_init_failed"
  /\ chatUpdate("failed", "Upload init", ErrText(err), "put")
  /\ UNCHANGED <<thread, build, upload, verify, result, ixonly>>

\* chat.update "Upload init failed: <error>"; return
UpdInitFailed ==
  /\ pc = "upd_init_failed"
  /\ chatUpdate("failed", "Upload init", ErrText(err), "end")
  /\ UNCHANGED <<thread, build, upload, verify, result, ixonly>>

\* fetch(upload_url, { method: "PUT", Content-Length: byteLen, body: bodyBuf })
Put ==
  /\ pc = "put"
  /\ calls' = Called("put")
  /\ sent' = Append(sent, [via |-> "put", declared |-> byteLen, len |-> BodyLength])
  /\ \/ /\ pc' = "upd5" /\ thrown' = FALSE
        /\ UNCHANGED <<outcome, failedStage, err>>
     \/ /\ \E s \in HttpStatuses : err' = s
        /\ outcome' = "Failed" /\ failedStage' = "transfer"
        /\ pc' = "upd_transfer_failed" /\ thrown' = FALSE
     \/ /\ Throw
        /\ UNCHANGED <<outcome, failedStage, err>>
  /\ UNCHANGED <<log, thread, build, reserved, attached, verify, fid, ixonly>>

\* mutant: the `return` after the notification is missing
UpdTransferFailed_NoReturn ==
  /\ pc = "upd_transfer_failed"
  /\ chatUpdate("failed", "Upload transfer", err, "upd5")
  /\ UNCHANGED <<thread, build, upload, verify, result, ixonly>>

\* chat.update "Upload transfer failed: <status> <statusText>"; return
UpdTransferFailed ==
  /\ pc = "upd_transfer_failed"
  /\ chatUpdate("failed", "Upload transfer", err, "end")
  /\ UNCHANGED <<thread, build, upload, verify, result, ixonly>>

\* Step 5: chat.update "Step 5/7: Finalizing upload"
UpdFinalizing ==
  /\ pc = "upd5"
  /\ chatUpdate("step", 5, "", "finalize")
  /\ UNCHANGED <<thread, build, upload, verify, result, ixonly>>

\* files.completeUploadExternal({ files, channel_id, thread_ts }): an ok
\* answer has shared the file to the thread; `if (!done?.ok)`
Finalize ==
  /\ pc = "finalize"
  /\ calls' = Called("finalize")
  /\ \/ /\ attached' = attached + 1
        /\ pc' = "upd6" /\ thrown' = FALSE
        /\ UNCHANGED <<outcome, failedStage, err>>
     \/ /\ \E e \in ErrorCodes : err' = e
        /\ outcome' = "Failed" /\ failedStage' = "finalize"
        /\ pc' = "upd_finalize_failed" /\ thrown' = FALSE
        /\ UNCHANGED attached
     \/ /\ Throw
        /\ UNCHANGED <<attached, outcome, failedStage, err>>
  /\ UNCHANGED <<log, thread, build, reserved, sent, verify, fid, ixonly>>

\* chat.update "Finalize failed: <error>"; return
UpdFinalizeFailed ==
  /\ pc = "upd_finalize_failed"
  /\ chatUpdate("failed", "Finalize", ErrText(err), "end")
  /\ UNCHANGED <<thread, build, upload, verify, result, ixonly>>

\* Step 6: chat.update "Step 6/7: Verifying file"; dlOk = false;
\* permalink = null; the loop starts at i = 0
UpdVerifying ==
  /\ pc = "upd6"
  /\ \E ok \in BOOLEAN :
       /\ log' = Append(log, Step(6, ok))
       /\ IF ok THEN pc' = "poll_info" /\ thrown' = FALSE /\ i' = 0
                ELSE Throw /\ i' = i
  /\ dlOk' = FALSE
  /\ permalink' = FALSE
  /\ UNCHANGED <<thread, cells, col, curY, pages, lastFetch, byteLen, upload,
                 lastPoll,
                 matched, sleeps,
                 result, ixonly>>

\* the code after the verify loop: `if (!dlOk)` the fallback, else Step 7
\* (`if (permalink)` a chat.postMessage first)
AfterVerify(ok, link) ==
  IF ~ok
  THEN pc' = "upd6b" /\ outcome' = outcome
  ELSE /\ outcome' = "Done"
       /\ pc' = IF link THEN "post_permalink" ELSE "upd_done"

\* files.info({ file: file_id }) of one poll, inside the try: an exception
\* leaves the loop through the catch
PollInfo ==
  /\ pc = "poll_info"
  /\ calls' = Called("info")
  /\ \/ /\ lastPoll' = [info |-> "raise", dl |-> FALSE, res |-> "none", len |-> 0]
        /\ AfterVerify(dlOk, permalink)
        /\ UNCHANGED permalink
     \/ \E link \in BOOLEAN, dl \in BOOLEAN :
          /\ permalink' = link
          /\ lastPoll' = [info |-> "ok", dl |-> dl, res |-> "none", len |-> 0]
          /\ pc' = IF dl THEN "poll_fetch" ELSE "sleep"
          /\ outcome' = outcome
  /\ UNCHANGED <<thrown, log, thread, build, reserved, sent, attached, dlOk,
                 matched, sleeps, failedStage, err, fid, ixonly>>

\* mutant: the length comparison is missing
Accept_AnyLength(res, n) == res = "ok"

\* `res.ok` and `buf.length === byteLen`
Accept(res, n) == res = "ok" /\ n = byteLen

\* fetch(dl) of one poll and the comparison of the re-downloaded length
PollFetch ==
  /\ pc = "poll_fetch"
  /\ calls' = Called("fetch")
  /\ \E res \in {"raise", "notok", "ok"}, n \in 0..MaxBytes :
       /\ res # "ok" => n = 0
       /\ lastPoll' = [lastPoll EXCEPT !.res = res, !.len = n]
       /\ matched' = (matched \/ (res = "ok" /\ n = byteLen))
       /\ IF res = "raise"
          THEN AfterVerify(dlOk, permalink) /\ dlOk' = dlOk
          ELSE IF Accept(res, n)
          THEN dlOk' = TRUE /\ AfterVerify(TRUE, permalink)
          ELSE dlOk' = dlOk /\ pc' = "sleep" /\ outcome' = outcome
  /\ UNCHANGED <<thrown, log, thread, build, reserved, sent, attached,
                 permalink, sleeps, failedStage, err, fid, ixonly>>

\* mutant: the first poll that does not match ends the polling
Sleep_NoRetry ==
  /\ pc = "sleep"
  /\ sleeps' = sleeps + 1
  /\ i' = i + 1
  /\ AfterVerify(dlOk, permalink)
  /\ UNCHANGED <<thrown, log, thread, cells, col, curY, pages, lastFetch, byteLen,
                 upload,
                 dlOk, permalink, lastPoll, matched, failedStage, err, fid,
                 ixonly>>

\* mutant: the loop has no bound on the number of attempts
Sleep_Unbounded ==
  /\ pc = "sleep"
  /\ sleeps' = sleeps + 1
  /\ i' = i + 1
  /\ pc' = "poll_info" /\ outcome' = outcome
  /\ UNCHANGED <<thrown, log, thread, cells, col, curY, pages, lastFetch, byteLen,
                 upload,
                 dlOk, permalink, lastPoll, matched, failedStage, err, fid,
                 ixonly>>

\* await new Promise(r => setTimeout(r, 1000)); i++; `i < 8`
Sleep ==
  /\ pc = "sleep"
  /\ sleeps' = sleeps + 1
  /\ i' = i + 1
  /\ IF i + 1 < VerifyAttempts
     THEN pc' = "poll_info" /\ outcome' = outcome
     ELSE AfterVerify(dlOk, permalink)
  /\ UNCHANGED <<thrown, log, thread, cells, col, curY, pages, lastFetch, byteLen,
                 upload,
                 dlOk, permalink, lastPoll, matched, failedStage, err, fid,
                 ixonly>>

\* chat.update "Step 6/7: Primary upload not accessible. Falling back"
UpdFallingBack ==
  /\ pc = "upd6b"
  /\ chatUpdate("step", 6, "", "uploadV2")
  /\ UNCHANGED <<thread, build, upload, verify, result, ixonly>>

\* files.uploadV2({ channel_id, thread_ts, file: bodyBuf }): an ok answer has
\* attached the file to the thread; `if (!up2?.ok)`; fid from the answer
UploadV2 ==
  /\ pc = "uploadV2"
  /\ calls' = Called("uploadV2")
  /\ sent' = Append(sent, [via |-> "uploadV2", declared |-> BodyLength,
                           len |-> BodyLength])
  /\ \/ /\ attached' = attached + 1
        /\ outcome' = "FallbackDone"
        /\ \E f \in BOOLEAN :
             fid' = f /\ pc' = IF f THEN "fb_info" ELSE "upd_done_fb"
        /\ thrown' = FALSE
        /\ UNCHANGED <<failedStage, err>>
     \/ /\ \E e \in ErrorCodes : err' = e
        /\ outcome' = "Failed" /\ failedStage' = "fallback"
        /\ pc' = "upd_fallback_failed" /\ thrown' = FALSE
        /\ UNCHANGED <<attached, fid>>
     \/ /\ Throw
        /\ UNCHANGED <<attached, outcome, failedStage, err, fid>>
  /\ UNCHANGED <<log, thread, build, reserved, verify, ixonly>>

\* mutant: the `return` after the notification is missing
UpdFallbackFailed_NoReturn ==
  /\ pc = "upd_fallback_failed"
  /\ chatUpdate("failed", "Fallback upload", ErrText(err), "upd_done_fb")
  /\ UNCHANGED <<thread, build, upload, verify, result, ixonly>>

\* chat.update "Fallback upload failed: <error>"; return
UpdFallbackFailed ==
  /\ pc = "upd_fallback_failed"
  /\ chatUpdate("failed", "Fallback upload", ErrText(err), "end")
  /\ UNCHANGED <<thread, build, upload, verify, result, ixonly>>

\* files.info({ file: fid }) inside try { } catch {}
FallbackInfo ==
  /\ pc = "fb_info"
  /\ \E r \in {"raise", "nolink", "link"} :
       pc' = IF r = "link" THEN "fb_post" ELSE "upd_done_fb"
  /\ UNCHANGED <<thrown, log, thread, build, upload, verify, result, ixonly>>

\* chat.postMessage "PDF (fallback): <permalink>" inside the same try: an
\* exception is swallowed
FallbackPost ==
  /\ pc = "fb_post"
  /\ \E ok \in BOOLEAN :
       log' = Append(log, Entry("chat.postMessage", "permalink", 0, "", ok))
  /\ pc' = "upd_done_fb"
  /\ UNCHANGED <<thrown, thread, build, upload, verify, result, ixonly>>

\* chat.update "Done: PDF posted in this thread. (fallback)"; return
UpdDoneFallback ==
  /\ pc = "upd_done_fb"
  /\ chatUpdate("done (fallback)", 0, "", "end")
  /\ UNCHANGED <<thread, build, upload, verify, result, ixonly>>

\* Step 7: chat.postMessage "PDF: <permalink>"
PostPermalink ==
  /\ pc = "post_permalink"
  /\ \E ok \in BOOLEAN :
       /\ log' = Append(log, Entry("chat.postMessage", "permalink", 0, "", ok))
       /\ IF ok THEN pc' = "upd_done" /\ thrown' = FALSE ELSE Throw
  /\ UNCHANGED <<thread, build, upload, verify, result, ixonly>>

\* chat.update "Done: PDF posted in this thread."; end of the handler
UpdDone ==
  /\ pc = "upd_done"
  /\ chatUpdate("done", 0, "", "end")
  /\ UNCHANGED <<thread, build, upload, verify, result, ixonly>>

Next ==
  \/ Start \/ UpdReading \/ Replies \/ UpdCollecting \/ UpdNoImages
  \/ UpdBuilding \/ Download \/ UpdProgress \/ Save
  \/ UpdInit \/ Reserve \/ UpdInitFailed
  \/ Put \/ UpdTransferFailed
  \/ UpdFinalizing \/ Finalize \/ UpdFinalizeFailed
  \/ UpdVerifying \/ PollInfo \/ PollFetch \/ Sleep
  \/ UpdFallingBack \/ UploadV2 \/ UpdFallbackFailed
  \/ FallbackInfo \/ FallbackPost \/ UpdDoneFallback
  \/ PostPermalink \/ UpdDone

Spec == Init /\ [][Next]_vars

\* ======================================================================
\* Properties of the delivery sequence of src/unnamed/part_004
\* ======================================================================
TerminalOutcomes == {"Done", "FallbackDone", "Failed", "NoImages"}
TerminalKinds == {"done", "done (fallback)", "failed", "noimages"}

Last(s) == s[Len(s)]

\* the progress text of a failed stage starts with these words
StageLabel(st) ==
  CASE st = "reserve" -> "Upload init"
    [] st = "transfer" -> "Upload transfer"
    [] st = "finalize" -> "Finalize"
    [] st = "fallback" -> "Fallback upload"
    [] OTHER -> "none"

\* collaborator calls that belong to the stages after `st`
LaterCalls(st) ==
  CASE st = "reserve" -> {"put", "finalize", "info", "fetch", "uploadV2"}
    [] st = "transfer" -> {"finalize", "info", "fetch", "uploadV2"}
    [] st = "finalize" -> {"info", "fetch", "uploadV2"}
    [] OTHER -> {}

FailureNotices == {k \in DOMAIN log : log[k].kind = "failed"}

\* C2: when reserve, the PUT or finalize answers not-ok the export is Failed,
\* no call of a later stage is ever made, and once the handler has ended
\* exactly one failure notification was emitted, it is the last progress
\* call, and it names the failed stage and the reported error code.
C2_StageFailureEndsInFailed ==
  failedStage \in {"reserve", "transfer", "finalize"} =>
    /\ outcome = "Failed"
    /\ \A c \in LaterCalls(failedStage) : calls[c] = 0
    /\ Cardinality(FailureNotices) = IF pc = "end" THEN 1 ELSE 0
    /\ pc = "end" =>
         /\ Last(log).kind = "failed"
         /\ Last(log).arg = StageLabel(failedStage)
         /\ err # "" => Last(log).code = err
    /\ \A k \in DOMAIN log : log[k].kind \notin {"done", "done (fallback)"}

C2_Witness ==
  /\ pc = "end"
  /\ failedStage = "finalize"
  /\ err = "invalid_auth"
  /\ Last(log).kind = "failed"

\* C3: in a run that is Failed because reserve, the PUT or finalize failed,
\* no document is attached to the thread: files.completeUploadExternal did
\* not succeed and files.uploadV2 was never called.
C3_NoDocumentAfterStageFailure ==
  (outcome = "Failed" /\ failedStage \in {"reserve", "transfer", "finalize"}) =>
    /\ attached = 0
    /\ calls.uploadV2 = 0
    /\ failedStage \in {"reserve", "transfer"} => calls.finalize = 0

C3_Witness ==
  /\ pc = "end"
  /\ outcome = "Failed"
  /\ failedStage = "finalize"
  /\ calls.finalize = 1
  /\ attached = 0

\* C4: the primary success (outcome Done, final text "Done: PDF posted in
\* this thread.") is reached only after a poll whose re-download answered ok
\* with exactly byteLen bytes; that poll is the last one made.
C4_DoneOnlyAfterLengthMatch ==
  (outcome = "Done" \/ \E k \in DOMAIN log : log[k].kind = "done") =>
    /\ matched
    /\ lastPoll = [info |-> "ok", dl |-> TRUE, res |-> "ok", len |-> byteLen]
    /\ sent # <<>> /\ lastPoll.len = sent[1].len

C4_Witness ==
  /\ pc = "end"
  /\ outcome = "Done"
  /\ sleeps > 0
  /\ Last(log).kind = "done"

\* C5 (as claimed): once reserve, PUT and finalize succeeded and the verify
\* loop ended without a match, the run calls files.uploadV2 and ends in
\* FallbackDone, or in Failed with the "Fallback upload failed" notification.
C5_UnverifiedEndsInFallback ==
  (pc = "end" /\ calls.info > 0 /\ ~dlOk) =>
    /\ calls.uploadV2 = 1
    /\ \/ outcome = "FallbackDone"
       \/ /\ outcome = "Failed"
          /\ failedStage = "fallback"
          /\ \E k \in DOMAIN log :
               log[k].kind = "failed" /\ log[k].arg = "Fallback upload"

\* C6 (as claimed): a run that ends in Done or FallbackDone has attached
\* exactly one document, and no run attaches two.
C6_ExactlyOneDocumentAttached ==
  /\ attached <= 1
  /\ outcome \in {"Done", "FallbackDone"} => attached = 1

\* C7: from the PUT onward the length declared to files.getUploadURLExternal
\* equals the Content-Length and the length of the body of the PUT and of the
\* buffer handed to files.uploadV2; no success is declared otherwise.
C7_DeclaredLengthIsTransferredLength ==
  /\ \A k \in DOMAIN sent :
       sent[k].len = reserved /\ sent[k].declared = sent[k].len
  /\ outcome \in {"Done", "FallbackDone"} =>
       sent # <<>> /\ reserved = byteLen /\ sent[1].via = "put"

C7_Witness ==
  /\ outcome = "FallbackDone"
  /\ Len(sent) = 2
  /\ sent[2].via = "uploadV2"
  /\ reserved = MaxBytes

\* C8 (as claimed): a run whose start notification was posted, and whose
\* notifications were all delivered, has when it ends reached a terminal
\* outcome and emitted the notification of it as its last progress call.
C8_EveryRunEndsInTerminalOutcome ==
  (pc = "end" /\ log # <<>> /\ \A k \in DOMAIN log : log[k].delivered) =>
    /\ outcome \in TerminalOutcomes
    /\ Last(log).kind \in TerminalKinds

\* C9 (as claimed): a run in which a stage notification was not delivered
\* still ends in a terminal outcome.
C9_NotificationFailureDoesNotAbort ==
  (pc = "end" /\ \E k \in DOMAIN log :
                   log[k].kind = "step" /\ k > 1 /\ ~log[k].delivered) =>
    outcome \in TerminalOutcomes

\* C10: once the notification of Done, FallbackDone or Failed (or of the
\* no-images end) has been emitted, the run makes no further collaborator
\* call, attaches nothing and emits no further notification.
TerminalNotified == log # <<>> /\ Last(log).kind \in TerminalKinds

C10_TerminalIsFinal ==
  [][TerminalNotified =>
       /\ calls' = calls
       /\ log' = log
       /\ sent' = sent
       /\ attached' = attached
       /\ outcome' = outcome]_vars

C10_Witness ==
  /\ TerminalNotified
  /\ pc = "end"
  /\ outcome = "Failed"
  /\ failedStage = "fallback"

\* C11: the verify loop makes at most 8 polls (files.info calls) in a run; a
\* poll whose re-download answered ok with byteLen bytes is the last one (no
\* poll and no wait follows it); and the 1-second wait is taken only after a
\* poll that did not match, once per such poll.
PollMatches == lastPoll.res = "ok" /\ lastPoll.len = byteLen

C11_BoundedPollingStopsAtMatch ==
  /\ calls.info <= 8
  /\ calls.fetch <= calls.info
  /\ sleeps <= calls.info
  /\ pc = "sleep" => ~PollMatches /\ sleeps = calls.info - 1
  /\ matched => /\ dlOk /\ PollMatches
                /\ pc \notin {"poll_info", "poll_fetch", "sleep"}
                /\ sleeps = calls.info - 1

C11_Witness ==
  /\ calls.info = 8
  /\ sleeps = 7
  /\ dlOk
  /\ pc = "end"

\* ======================================================================
\* src/src/index.ts: export_pdf
\* ======================================================================
contentW == pageW - margin * 2
gutter == 16
titleSize == 14
captionSize == 11
captionEsSize == 10
lineH == captionSize + 3
lineHes == captionEsSize + 2
maxCaptionLines == 8
maxCaptionEsLines == 8
\* Math.floor((contentW - gutter) / 2)
tileW == (contentW - gutter) \div 2
tileHMax == 240
rowGap == 14
groupGap == 10
titleGap == 20

\* ---- grouping ----
\* mutant: the `if (fileIds.length)` test is missing
RECURSIVE GroupMessages_NoLengthTest(_)
GroupMessages_NoLengthTest(ms) ==
  IF ms = <<>> THEN <<>>
  ELSE LET m == Head(ms)
       IN (IF m.files # <<>>
           THEN <<[caption |-> CaptionOf(m), captionEs |-> <<>>,
                   fileIds |-> ImageIds(m.files)]>>
           ELSE <<>>)
          \o GroupMessages_NoLengthTest(Tail(ms))

\* one group per message that has at least one image file
RECURSIVE GroupMessages(_)
GroupMessages(ms) ==
  IF ms = <<>> THEN <<>>
  ELSE LET m == Head(ms)
           fileIds == ImageIds(m.files)
       IN (IF m.files # <<>> /\ fileIds # <<>>
           THEN <<[caption |-> CaptionOf(m), captionEs |-> <<>>, fileIds |-> fileIds]>>
           ELSE <<>>)
          \o GroupMessages(Tail(ms))

\* what translateEs may hand back for a caption: nothing (not ok, or empty),
\* or a translation; an empty caption is never translated
Translations(caption) ==
  IF caption = <<>> THEN {<<>>} ELSE {<<>>, <<30, 0, 30>>}

\* the messages index.ts is run on: the k-th message has files 10k+1..10k+3;
\* the last shape has no text, comment or title, hence an empty caption
IxMsgShapes(k) ==
  { Msg(<<3, 0, 2>>, <<>>),
    Msg(<<3>>, <<File(10 * k + 1, FALSE)>>),
    Msg(<<3>>, <<File(10 * k + 1, TRUE)>>),
    Msg(<<30, 0, 30, 0, 30>>,
        <<File(10 * k + 1, TRUE), File(10 * k + 2, TRUE), File(10 * k + 3, TRUE)>>),
    Msg(<<60>>, <<File(10 * k + 1, FALSE), File(10 * k + 2, TRUE)>>),
    Msg(<<>>, <<[File(10 * k + 1, TRUE) EXCEPT !.title = <<>>]>>) }

IxThreads ==
  UNION { { ms \in [1..n -> UNION { IxMsgShapes(k) : k \in 1..n }] :
              /\ \A k \in 1..n : ms[k] \in IxMsgShapes(k)
              /\ TotalImages(ms) <= MaxImages } : n \in 0..MaxMsgs }

\* ---- layout ----
\* One drawText / drawImage: the page it went to, what it is, its position
\* and size, the file it stands for (0: none) and its text line.
Placement(p, kind, x, yy, w, h, ref, line) ==
  [page |-> p, kind |-> kind, x |-> x, y |-> yy, w |-> w, h |-> h,
   ref |-> ref, line |-> line]

\* ensureSpace(required) on the cursor st = [page, y, placed]
ensureSpace(st, required) ==
  IF st.y - required < margin
  THEN [st EXCEPT !.page = @ + 1, !.y = pageH - margin]
  ELSE st

\* the loop that draws the lines of a caption block from yy = y - size down,
\* and `y = yy - gap` after it
RECURSIVE drawLines(_, _, _, _, _, _)
drawLines(st, lines, kind, yy, lh, gap) ==
  IF lines = <<>> THEN [st EXCEPT !.y = yy - gap]
  ELSE drawLines([st EXCEPT !.placed =
                    Append(@, Placement(st.page, kind, margin, yy, 0, 0, 0, Head(lines)))],
                 Tail(lines), kind, yy - lh, lh, gap)

capLinesOf(k) ==
  wrap(<<NumW, 0>> \o groups[k].caption, contentW, captionSize, maxCaptionLines)
esLinesOf(k) ==
  IF ADD_SPANISH /\ groups[k].captionEs # <<>>
  THEN wrap(groups[k].captionEs, contentW, captionEsSize, maxCaptionEsLines)
  ELSE <<>>

\* the head of the loop body for group k: the look-ahead ensureSpace and the
\* two caption blocks
groupHead(st, k) ==
  LET capLines == capLinesOf(k)
      capHeight == IF Len(capLines) > 0 THEN Len(capLines) * lineH + 2 ELSE 0
      esLines == esLinesOf(k)
      esHeight == IF Len(esLines) > 0 THEN Len(esLines) * lineHes + 6 ELSE 0
      firstRow == IF Len(groups[k].fileIds) > 0 THEN tileHMax + rowGap ELSE 0
      s1 == ensureSpace(st, capHeight + esHeight + firstRow)
      s2 == IF capHeight # 0
            THEN drawLines(s1, capLines, "caption", s1.y - captionSize, lineH, 2)
            ELSE s1
      s3 == IF Len(esLines) > 0
            THEN drawLines(s2, esLines, "captionEs", s2.y - captionEsSize, lineHes, 6)
            ELSE s2
  IN s3

\* the synchronous code from the row test `i < g.fileIds.length` of group k
\* (r is i) to the next awaited drawTile or to the end of the layout
RECURSIVE runFrom(_, _, _)
runFrom(st, k, r) ==
  IF r < Len(groups[k].fileIds)
  THEN [st |-> ensureSpace(st, tileHMax + rowGap), idx |-> k - 1, i |-> r,
        pc |-> "ix_left"]
  ELSE LET s1 == [st EXCEPT !.y = @ - groupGap]
       IN IF k < Len(groups)
          THEN runFrom(groupHead(s1, k + 1), k + 1, 0)
          ELSE [st |-> s1, idx |-> k, i |-> r, pc |-> "ix_save"]

\* the sizes (iw, ih) of a decoded image; each scales to whole units
ImageSizes == { <<524, 160>>, <<262, 480>> }

\* what downloadOriginal, compressToJpeg and pdf.embedJpg may do for a tile
TileOutcomes ==
  [fetch : FetchOutcomes, decode : {FALSE}, size : {<<0, 0>>}]
  \cup [fetch : {f \in FetchOutcomes : f.ab = "ok"}, decode : {TRUE}, size : ImageSizes]

\* mutant: the statements of downloadOriginal without the try/catch
downloadOriginal_NoCatch(f) == tryDownload(f)

\* downloadOriginal: try { ... } catch { return null; }
downloadOriginal(f) ==
  LET r == tryDownload(f) IN IF r = "raise" THEN "null" ELSE r

\* the scaled size of an iw x ih image: scale = min(tileW / iw, tileHMax / ih)
scaled(iw, ih) ==
  IF tileW * ih <= tileHMax * iw
  THEN [w |-> tileW, h |-> (ih * tileW) \div iw]
  ELSE [w |-> (iw * tileHMax) \div ih, h |-> tileHMax]

\* mutant: an image that cannot be downloaded is skipped without a text
drawTile_SkipFailed(p, x, topY, fileId, o) ==
  IF downloadOriginal(o.fetch) = "null"
  THEN [h |-> tileHMax, made |-> <<>>]
  ELSE IF o.decode
  THEN LET s == scaled(o.size[1], o.size[2])
       IN [h |-> s.h,
           made |-> <<Placement(p, "image", x, topY - s.h, s.w, s.h, fileId, <<>>)>>]
  ELSE [h |-> tileHMax,
        made |-> <<Placement(p, "[image error]", x, topY - lineH, 0, 0, fileId, <<>>)>>]

\* drawTile(x, topY, fileId): the placement it makes on `p` and the height
\* it returns
drawTile(p, x, topY, fileId, o) ==
  IF downloadOriginal(o.fetch) = "null"
  THEN [h |-> tileHMax,
        made |-> <<Placement(p, "[download failed]", x, topY - lineH, 0, 0, fileId, <<>>)>>]
  ELSE IF o.decode
  THEN LET s == scaled(o.size[1], o.size[2])
       IN [h |-> s.h,
           made |-> <<Placement(p, "image", x, topY - s.h, s.w, s.h, fileId, <<>>)>>]
  ELSE [h |-> tileHMax,
        made |-> <<Placement(p, "[image error]", x, topY - lineH, 0, 0, fileId, <<>>)>>]

p4rest == <<imgs, cells, col, curY, pages, reserved, dlOk, permalink, fid, lastPoll,
           matched, sleeps>>
p4only == <<p4rest, lastFetch>>

InitIndex ==
  /\ pc = "ix_start"
  /\ thrown = FALSE
  /\ log = <<>>
  /\ messages = <<>>
  /\ imgs = <<>>
  /\ i = 0
  /\ cells = <<>>
  /\ col = 0
  /\ curY = 0
  /\ pages = 0
  /\ lastFetch = NoFetch
  /\ byteLen = 0
  /\ reserved = 0
  /\ sent = <<>>
  /\ dlOk = FALSE
  /\ permalink = FALSE
  /\ fid = FALSE
  /\ calls = NoCalls
  /\ lastPoll = NoPoll
  /\ matched = FALSE
  /\ sleeps = 0
  /\ attached = 0
  /\ outcome = "none"
  /\ failedStage = "none"
  /\ err = ""
  /\ ADD_SPANISH \in BOOLEAN
  /\ groups = <<>>
  /\ idx = 0
  /\ page = 0
  /\ y = 0
  /\ placed = <<>>
  /\ hLeft = 0
  /\ fetches = <<>>
  /\ nextY = 0
  /\ xGroup = 0
  /\ wrapIn = NoWrap
  /\ wrapOut = <<>>
  /\ scaleIn = <<0, 0>>
  /\ scaleOut = <<>>
  /\ nameIn = <<>>
  /\ nameOut = <<>>
  /\ active = 1
  /\ parked = NoRequest
  /\ followIn = NoFollowUp
  /\ followOut = <<>>
  /\ sigIn = NoRequest
  /\ sigOut = <<>>

\* chat.postMessage "Step 0/4: Starting export"
IxStart ==
  /\ pc = "ix_start"
  /\ \E ok \in BOOLEAN :
       /\ log' = Append(log, Entry("chat.postMessage", "step", 0, "", ok))
       /\ IF ok THEN pc' = "ix_upd1" /\ thrown' = FALSE ELSE Throw
  /\ UNCHANGED <<messages, i, byteLen, sent, calls, attached, outcome,
                 failedStage, err, p4only, ixonly>>

\* chat.update "Step 1/4: Reading thread"
IxUpdReading ==
  /\ pc = "ix_upd1"
  /\ chatUpdate("step", 1, "", "ix_replies")
  /\ UNCHANGED <<messages, i, byteLen, sent, calls, attached, outcome,
                 failedStage, err, p4only, ixonly>>

\* conversations.replies; messages = replies.messages || []
IxReplies ==
  /\ pc = "ix_replies"
  /\ \/ /\ \E ms \in IxThreads : messages' = ms
        /\ pc' = "ix_upd2"
        /\ thrown' = FALSE
     \/ /\ Throw
        /\ UNCHANGED messages
  /\ UNCHANGED <<log, i, byteLen, sent, calls, attached, outcome,
                 failedStage, err, p4only, ixonly>>

\* chat.update "Step 2/4: Grouping images by message", the grouping loop
\* (with translateEs per group when ADD_SPANISH) and `if (!groups.length)`
IxUpdGrouping ==
  /\ pc = "ix_upd2"
  /\ \E ok \in BOOLEAN :
       /\ log' = Append(log, Step(2, ok))
       /\ IF ok
          THEN /\ LET gs == GroupMessages(messages)
                  IN \E es \in [DOMAIN gs -> {<<>>, <<30, 0, 30>>}] :
                       /\ \A k \in DOMAIN gs :
                            es[k] \in (IF ADD_SPANISH THEN Translations(gs[k].caption)
                                       ELSE {<<>>})
                       /\ groups' = [k \in DOMAIN gs |-> [gs[k] EXCEPT !.captionEs = es[k]]]
               /\ thrown' = FALSE
               /\ IF groups' = <<>>
                  THEN pc' = "ix_upd_noimages" /\ outcome' = "NoImages"
                  ELSE pc' = "ix_upd3" /\ outcome' = outcome
          ELSE Throw /\ UNCHANGED <<groups, outcome>>
  /\ UNCHANGED <<messages, i, byteLen, sent, calls, attached, failedStage, err,
                 p4only, ADD_SPANISH, p3only, alone, idx, page, y, placed, hLeft, fetches>>

\* chat.update "No images found in this thread."; return
IxUpdNoImages ==
  /\ pc = "ix_upd_noimages"
  /\ chatUpdate("noimages", 0, "", "end")
  /\ UNCHANGED <<messages, i, byteLen, sent, calls, attached, outcome,
                 failedStage, err, p4only, ixonly>>

\* the literal "Export": one word
ExportWord == <<6>>

\* mutant: the root message's text is not read
findRootText_NoText(ms) == <<>>

\* findRootText(messages, root_ts): the text of the thread's parent, trimmed.
\* conversations.replies hands the parent back first, so `messages.find(m =>
\* m.ts === root_ts)` and the fallback `messages[0]` name the same message.
findRootText(ms) == IF ms = <<>> THEN <<>> ELSE trim(ms[1].text)

\* shortTitle(s): whitespace runs become one space (a run is one token
\* already), trimmed, "Export" for an empty result; the thread texts here are
\* shorter than the 120 characters that slice keeps
shortTitle(s) ==
  LET t == trim(IF s = <<>> THEN ExportWord ELSE s)
  IN IF t = <<>> THEN ExportWord ELSE t

\* niceTitle = shortTitle(rootText || "Export")
niceTitle == shortTitle(findRootText(messages))

\* the cursor after the first page is added and the title is drawn
titled ==
  [page |-> 1, y |-> pageH - margin - (titleSize + titleGap),
   placed |-> <<Placement(1, "title", margin, pageH - margin - titleSize, 0, 0, 0,
                          niceTitle)>>]

\* the layout variables take the values the synchronous code leaves
Resume(r) ==
  /\ page' = r.st.page
  /\ y' = r.st.y
  /\ placed' = r.st.placed
  /\ idx' = r.idx
  /\ i' = r.i
  /\ pc' = r.pc

\* chat.update "Step 3/4: Building PDF", the document set-up, the title, and
\* the first group up to its first drawTile
IxUpdBuilding ==
  /\ pc = "ix_upd3"
  /\ \E ok \in BOOLEAN :
       /\ log' = Append(log, Step(3, ok))
       /\ IF ok
          THEN thrown' = FALSE /\ Resume(runFrom(groupHead(titled, 1), 1, 0))
          ELSE Throw /\ UNCHANGED <<page, y, placed, idx, i>>
  /\ UNCHANGED <<messages, byteLen, sent, calls, attached, outcome,
                 failedStage, err, p4only, ADD_SPANISH, p3only, alone, groups, hLeft, fetches>>

\* what a drawTile call put on the page
Drew(t) == IF t.made = <<>> THEN "nothing" ELSE t.made[1].kind

\* mutant: drawTile lets a failed download or a failed decode escape
drawTileRaises_OnFailure(t) == Drew(t) # "image"

\* whether a drawTile call raises to the row loop: `if (!orig) { ...; return
\* tileHMax; }` and `catch { ...; return tileHMax; }` return on every path
drawTileRaises(t) == FALSE

\* mutant: a download that handed back null is made a second time
fetchOf_RetryOnNull(fileId, t) ==
  IF Drew(t) = "[download failed]"
  THEN fetches \o <<[fileId |-> fileId, image |-> FALSE],
                    [fileId |-> fileId, image |-> FALSE]>>
  ELSE Append(fetches, [fileId |-> fileId, image |-> Drew(t) = "image"])

\* the one `await downloadOriginal(client, token, fileId)` of a drawTile call
fetchOf(fileId, t) ==
  Append(fetches, [fileId |-> fileId, image |-> Drew(t) = "image"])

\* mutant: the row is as high as its left tile
rowH_LeftOnly(hL, hR) == hL

\* rowH = Math.max(hLeft, hRight)
rowH(hL, hR) == Max(hL, hR)

\* hLeft = await drawTile(margin, y, g.fileIds[i]); when the row has no
\* right tile, also the end of the row (hRight = 0)
IxLeft ==
  /\ pc = "ix_left"
  /\ \E o \in TileOutcomes :
       LET g == groups[idx + 1]
           t == drawTile(page, margin, y, g.fileIds[i + 1], o)
           st == [page |-> page, y |-> y, placed |-> placed \o t.made]
       IN /\ lastFetch' = Fetched(o.fetch, downloadOriginal(o.fetch))
          /\ fetches' = fetchOf(g.fileIds[i + 1], t)
          /\ IF drawTileRaises(t)
             THEN /\ Throw
                  /\ placed' = st.placed
                  /\ UNCHANGED <<page, y, idx, i, hLeft>>
             ELSE IF i + 1 < Len(g.fileIds)
             THEN /\ hLeft' = t.h
                  /\ placed' = st.placed
                  /\ pc' = "ix_right"
                  /\ UNCHANGED <<thrown, page, y, idx, i>>
             ELSE /\ hLeft' = t.h
                  /\ thrown' = thrown
                  /\ Resume(runFrom([st EXCEPT !.y = @ - (rowH(t.h, 0) + rowGap)],
                                    idx + 1, i + 2))
  /\ UNCHANGED <<log, messages, byteLen, sent, calls, attached, outcome,
                 failedStage, err, p4rest, ADD_SPANISH, p3only, alone, groups>>

\* hRight = await drawTile(margin + tileW + gutter, y, g.fileIds[i + 1]);
\* rowH = Math.max(hLeft, hRight); y -= rowH + 14; the next row or group
IxRight ==
  /\ pc = "ix_right"
  /\ \E o \in TileOutcomes :
       LET g == groups[idx + 1]
           t == drawTile(page, margin + tileW + gutter, y, g.fileIds[i + 2], o)
           st == [page |-> page, y |-> y, placed |-> placed \o t.made]
       IN /\ lastFetch' = Fetched(o.fetch, downloadOriginal(o.fetch))
          /\ fetches' = fetchOf(g.fileIds[i + 2], t)
          /\ IF drawTileRaises(t)
             THEN /\ Throw
                  /\ placed' = st.placed
                  /\ UNCHANGED <<page, y, idx, i>>
             ELSE /\ thrown' = thrown
                  /\ Resume(runFrom([st EXCEPT !.y = @ - (rowH(hLeft, t.h) + rowGap)],
                                    idx + 1, i + 2))
  /\ UNCHANGED <<log, messages, byteLen, sent, calls, attached, outcome,
                 failedStage, err, p4rest, ADD_SPANISH, p3only, alone, groups, hLeft>>

\* pdfBytes = await pdf.save(); bodyBuf = Buffer.from(pdfBytes).  The
\* document is now its bytes: the drawing record is dropped, and the layout
\* cursor (y, hLeft) is not read again.
IxSave ==
  /\ pc = "ix_save"
  /\ \E n \in 1..MaxBytes : byteLen' = n
  /\ placed' = <<>>
  /\ lastFetch' = NoFetch
  /\ y' = 0
  /\ hLeft' = 0
  /\ pc' = "ix_upd4"
  /\ UNCHANGED <<thrown, log, messages, i, sent, calls, attached, outcome,
                 failedStage, err, p4rest, ADD_SPANISH, p3only, alone, groups, idx, page, fetches>>

\* chat.update "Step 4/4: Uploading PDF"
IxUpdUploading ==
  /\ pc = "ix_upd4"
  /\ chatUpdate("step", 4, "", "ix_upload")
  /\ UNCHANGED <<messages, i, byteLen, sent, calls, attached, outcome,
                 failedStage, err, p4only, ixonly>>

\* files.uploadV2({ channel_id, thread_ts, file: bodyBuf }); `if (!up2?.ok)`
IxUpload ==
  /\ pc = "ix_upload"
  /\ calls' = Called("uploadV2")
  /\ sent' = Append(sent, [via |-> "uploadV2", declared |-> byteLen, len |-> byteLen])
  /\ \/ /\ attached' = attached + 1
        /\ outcome' = "Done"
        /\ pc' = "ix_upd_done" /\ thrown' = FALSE
        /\ UNCHANGED <<failedStage, err>>
     \/ /\ \E e \in ErrorCodes : err' = e
        /\ outcome' = "Failed" /\ failedStage' = "upload"
        /\ pc' = "ix_upd_failed" /\ thrown' = FALSE
        /\ UNCHANGED attached
     \/ /\ Throw
        /\ UNCHANGED <<attached, outcome, failedStage, err>>
  /\ UNCHANGED <<log, messages, i, byteLen, p4only, ixonly>>

\* chat.update "Upload failed: <error>"; return
IxUpdFailed ==
  /\ pc = "ix_upd_failed"
  /\ chatUpdate("failed", "Upload", ErrText(err), "end")
  /\ UNCHANGED <<messages, i, byteLen, sent, calls, attached, outcome,
                 failedStage, err, p4only, ixonly>>

\* chat.update "Done: PDF posted in this thread."; end of the handler
IxUpdDone ==
  /\ pc = "ix_upd_done"
  /\ chatUpdate("done", 0, "", "end")
  /\ UNCHANGED <<messages, i, byteLen, sent, calls, attached, outcome,
                 failedStage, err, p4only, ixonly>>

NextIndex ==
  \/ IxStart \/ IxUpdReading \/ IxReplies \/ IxUpdGrouping \/ IxUpdNoImages
  \/ IxUpdBuilding \/ IxLeft \/ IxRight \/ IxSave
  \/ IxUpdUploading \/ IxUpload \/ IxUpdFailed \/ IxUpdDone

SpecIndex == InitIndex /\ [][NextIndex]_vars

\* ======================================================================
\* Properties of the layout of src/src/index.ts
\* ======================================================================
TileKinds == {"image", "[download failed]", "[image error]"}

\* the placements made for file id
PlacementsOf(id) == {n \in DOMAIN placed : placed[n].ref = id}

\* drawTile has returned for the j-th image of group k
TileDone(k, j) ==
  \/ k <= idx
  \/ k = idx + 1 /\ j <= i + (IF pc = "ix_right" THEN 1 ELSE 0)

\* C1: while the pages are built and when they are complete (before
\* pdf.save()), every image id of every group whose drawTile has returned has
\* exactly one placement, an image or one of the two fallback texts, on a
\* page of the document; an id not yet reached has none.  At the end of the
\* layout every id of every group has exactly one.
C1_EveryImagePlacedExactlyOnce ==
  pc \in {"ix_left", "ix_right", "ix_save"} =>
    /\ \A k \in DOMAIN groups : \A j \in DOMAIN groups[k].fileIds :
         LET made == PlacementsOf(groups[k].fileIds[j])
         IN /\ Cardinality(made) = IF TileDone(k, j) THEN 1 ELSE 0
            /\ \A n \in made : placed[n].kind \in TileKinds /\ placed[n].page \in 1..page
    /\ pc = "ix_save" => \A k \in DOMAIN groups : \A j \in DOMAIN groups[k].fileIds :
         TileDone(k, j)

C1_Witness ==
  /\ pc = "ix_save"
  /\ page >= 2
  /\ Len(groups) = 2
  /\ \E n \in DOMAIN placed : placed[n].kind = "[download failed]"
  /\ \E n \in DOMAIN placed : placed[n].kind = "[image error]"
  /\ \E n \in DOMAIN placed : placed[n].kind = "image" /\ placed[n].page = 2

\* C12: once the grouping step has run, the groups are, in order, the messages
\* that have at least one image attachment: one group per such message, its
\* fileIds that message's image attachments in attachment order; messages
\* without attachments or with non-image attachments only give no group, and
\* the step does not raise.
HasImage(m) == \E k \in DOMAIN m.files : m.files[k].image
IsImageFile(f) == f.image
ImageMessages == SelectSeq(messages, HasImage)
ImagesOf(m) ==
  LET fs == SelectSeq(m.files, IsImageFile) IN [k \in DOMAIN fs |-> fs[k].id]
Grouped == Len(log) >= 3 /\ log[3] = Step(2, TRUE)

C12_OneGroupPerImageMessageInOrder ==
  Grouped =>
    /\ Len(groups) = Len(ImageMessages)
    /\ \A k \in DOMAIN groups : groups[k].fileIds = ImagesOf(ImageMessages[k])
    /\ ~(thrown /\ Len(log) = 3)

C12_Witness ==
  /\ Grouped
  /\ Len(messages) = 2
  /\ messages[1].files # <<>> /\ ~HasImage(messages[1])
  /\ Len(messages[2].files) = 2 /\ ~messages[2].files[1].image
  /\ Len(groups) = 1
  /\ groups[1].fileIds = <<22>>

\* ======================================================================
\* The grouping loop on its own, over messages whose text, first-attachment
\* comment and first-attachment title are each absent, blank or present
\* ======================================================================
Texts == {<<>>, <<0>>, <<3>>, <<0, 3, 0, 2, 0>>}
Comments == {<<>>, <<0>>, <<0, 5>>}
Titles == {<<>>, <<0>>, <<4, 0>>}

\* one message with one or two image files; a second file carries a comment
\* and a title of its own
CaptionMessages ==
  { Msg(t, <<[id |-> 11, image |-> TRUE, comment |-> c, title |-> ti]>> \o rest) :
      t \in Texts, c \in Comments, ti \in Titles,
      rest \in {<<>>, <<[id |-> 12, image |-> TRUE, comment |-> <<6>>,
                        title |-> <<7>>]>>} }

InitGrouping ==
  /\ pc = "grouping"
  /\ thrown = FALSE
  /\ log = <<>>
  /\ messages \in {<<m>> : m \in CaptionMessages}
  /\ imgs = <<>>
  /\ i = 0
  /\ cells = <<>>
  /\ col = 0
  /\ curY = 0
  /\ pages = 0
  /\ lastFetch = NoFetch
  /\ byteLen = 0
  /\ reserved = 0
  /\ sent = <<>>
  /\ dlOk = FALSE
  /\ permalink = FALSE
  /\ fid = FALSE
  /\ calls = NoCalls
  /\ lastPoll = NoPoll
  /\ matched = FALSE
  /\ sleeps = 0
  /\ attached = 0
  /\ outcome = "none"
  /\ failedStage = "none"
  /\ err = ""
  /\ ADD_SPANISH = FALSE
  /\ groups = <<>>
  /\ idx = 0
  /\ page = 0
  /\ y = 0
  /\ placed = <<>>
  /\ hLeft = 0
  /\ fetches = <<>>
  /\ nextY = 0
  /\ xGroup = 0
  /\ wrapIn = NoWrap
  /\ wrapOut = <<>>
  /\ scaleIn = <<0, 0>>
  /\ scaleOut = <<>>
  /\ nameIn = <<>>
  /\ nameOut = <<>>
  /\ active = 1
  /\ parked = NoRequest
  /\ followIn = NoFollowUp
  /\ followOut = <<>>
  /\ sigIn = NoRequest
  /\ sigOut = <<>>

\* the loop `for (const m of messages)` of the grouping step
Grouping ==
  /\ pc = "grouping"
  /\ groups' = GroupMessages(messages)
  /\ pc' = "grouped"
  /\ UNCHANGED <<thrown, log, messages, i, byteLen, sent, calls, attached,
                 result, p4only, ADD_SPANISH, p3only, alone, idx, page, y, placed, hLeft,
                 fetches>>

NextGrouping == Grouping

SpecGrouping == InitGrouping /\ [][NextGrouping]_vars

\* C13: the caption of a group is the first of the message text, the first
\* attachment's comment and the first attachment's title that is non-empty
\* once trimmed, in trimmed form; it is empty only when all three are empty
\* or blank.
Candidates(m) == <<m.text, m.files[1].comment, m.files[1].title>>
Blank(s) == \A k \in DOMAIN s : IsSpace(s[k])
Trimmed(s) == s = <<>> \/ (~IsSpace(s[1]) /\ ~IsSpace(s[Len(s)]))
\* s is t without its leading and trailing whitespace
TrimOf(s, t) ==
  /\ Trimmed(s)
  /\ \E a \in 0..Len(t), b \in 0..Len(t) :
       /\ a + b <= Len(t)
       /\ s = SubSeq(t, a + 1, Len(t) - b)
       /\ \A k \in 1..a : IsSpace(t[k])
       /\ \A k \in (Len(t) - b + 1)..Len(t) : IsSpace(t[k])

C13_CaptionIsFirstNonEmptyTrimmed ==
  (pc = "grouped" /\ groups # <<>>) =>
    LET cands == Candidates(messages[1])
        ne == {k \in 1..3 : ~Blank(cands[k])}
        caption == groups[1].caption
    IN IF ne = {} THEN caption = <<>>
       ELSE /\ caption # <<>>
            /\ \E k \in ne : (\A j \in ne : k <= j) /\ TrimOf(caption, cands[k])

C13_Witness ==
  /\ pc = "grouped"
  /\ messages[1].text = <<0>>
  /\ messages[1].files[1].comment = <<>>
  /\ messages[1].files[1].title = <<4, 0>>
  /\ Len(messages[1].files) = 2
  /\ groups[1].caption = <<4>>

\* C14: an image download hands back null when files.info gave no url, when
\* the GET answered a non-success status, and when files.info, the GET or
\* the reading of the body raised; it hands back bytes only after an ok
\* response; it hands back nothing else, and the build does not stop on it.
C14_DownloadNullNeverRaises ==
  lastFetch # NoFetch =>
    /\ lastFetch.out \in {"null", "bytes"}
    /\ lastFetch.info = "nourl" => lastFetch.out = "null"
    /\ lastFetch.res = "notok" => lastFetch.out = "null"
    /\ "raise" \in {lastFetch.info, lastFetch.res, lastFetch.ab} =>
         lastFetch.out = "null"
    /\ lastFetch.out = "bytes" =>
         lastFetch.info = "url" /\ lastFetch.res = "ok" /\ lastFetch.ab = "ok"
    /\ ~thrown
    /\ fetches # <<>> /\ (lastFetch.out = "null" => ~Last(fetches).image)

C14_Witness ==
  /\ lastFetch.info = "url"
  /\ lastFetch.res = "raise"
  /\ lastFetch.out = "null"
  /\ Len(fetches) = 2
  /\ fetches[1].image

\* C15: the downloads of one export are, in order, a prefix of the image ids
\* taken group by group and, within a group, in attachment order: no id is
\* downloaded twice, whatever the download handed back; and whenever the
\* next download is about to start (and when the layout ends) every id
\* downloaded so far has its placement on the page.
RECURSIVE AllFileIds(_)
AllFileIds(gs) == IF gs = <<>> THEN <<>> ELSE Head(gs).fileIds \o AllFileIds(Tail(gs))

C15_OneFetchPerImageInOrder ==
  /\ Len(fetches) <= Len(AllFileIds(groups))
  /\ \A k \in DOMAIN fetches : fetches[k].fileId = AllFileIds(groups)[k]
  /\ \A k \in DOMAIN fetches, j \in DOMAIN fetches :
       fetches[k].fileId = fetches[j].fileId => k = j
  /\ pc \in {"ix_left", "ix_right", "ix_save"} =>
       \A k \in DOMAIN fetches :
         /\ Cardinality(PlacementsOf(fetches[k].fileId)) = 1
         /\ \A n \in PlacementsOf(fetches[k].fileId) :
              placed[n].kind \in TileKinds /\ (placed[n].kind = "image" <=> fetches[k].image)

C15_Witness ==
  /\ pc = "ix_save"
  /\ Len(groups) = 2
  /\ Len(fetches) = 4
  /\ ~fetches[1].image
  /\ fetches[2].image
  /\ ~fetches[3].image
  /\ fetches[4].fileId = groups[2].fileIds[1]

\* C16: an image whose download or decode failed does not end the export.
\* The run never ends at a tile; when the layout is over every image of every
\* group was handled; the document is then encoded; the only way the run ends
\* without files.uploadV2 being called is that the "Step 4/4" progress update
\* itself raised; and an ok answer of files.uploadV2 gives the outcome Done
\* and the "Done" text, whatever the tiles were.
SomeTileFailed == \E k \in DOMAIN fetches : ~fetches[k].image

IsFirstImage(id) == \E k \in DOMAIN groups : groups[k].fileIds[1] = id
CaptionRun(m, n) ==
  \A j \in m..(n - 1) : placed[j].kind \in {"caption", "captionEs"}

C17_CaptionWithFirstRow ==
  \A n \in DOMAIN placed :
    IsFirstImage(placed[n].ref) =>
      \A m \in 1..(n - 1) : CaptionRun(m, n) => placed[m].page = placed[n].page

\* C18 (as claimed): every image placement and every caption text run lies
\* inside the content area of its page: x >= margin, x + width <= pageW -
\* margin, bottom >= margin, top <= pageH - margin.
SizeOf(kind) == IF kind = "captionEs" THEN captionEsSize ELSE captionSize
WidthOf(pl) ==
  IF pl.kind = "image" THEN pl.w ELSE widthOfTextAtSize(pl.line, SizeOf(pl.kind))
TopOf(pl) == IF pl.kind = "image" THEN pl.y + pl.h ELSE pl.y + SizeOf(pl.kind)

C18_PlacementsInsideContentArea ==
  \A n \in DOMAIN placed :
    placed[n].kind \in {"image", "caption", "captionEs"} =>
      /\ placed[n].x >= margin
      /\ placed[n].x + WidthOf(placed[n]) <= pageW - margin
      /\ placed[n].y >= margin
      /\ TopOf(placed[n]) <= pageH - margin

\* ======================================================================
\* src/unnamed/part_003: export_pdf (two columns, one caption per message)
\* ======================================================================
\* Steps 0 to 2 and the delivery after pdf.save() are, statement for
\* statement, those of src/src/index.ts without the translation: the actions
\* IxStart, IxUpdReading, IxReplies, IxUpdNoImages, IxUpdUploading, IxUpload,
\* IxUpdFailed and IxUpdDone stand for them.  pageW, pageH, margin, gutter,
\* colW, captionSize, lineHeight, maxCaptionLines, imageMaxH, captionBlockH
\* and wrapText are those of part_004.

cellHFirst == captionBlockH + imageMaxH + 12
cellHNoCaption == imageMaxH + 12

\* pageH - margin - 18: the top of a column
p3_top == pageH - margin - 18

\* margin + (col === 0 ? 0 : colW + gutter)
p3_colX(c) == margin + (IF c = 0 THEN 0 ELSE colW + p4_gutter)

\* mutant: the cursor goes back to the top without a change of column
p3_advance_SameColumn(st) == [st EXCEPT !.curY = pageH - margin - 18]

\* `if (col === 0) { col = 1; ... } else { page = addPage(); col = 0; ... }`
\* on the cursor st = [page, col, curY, nextY, x, placed]
p3_advance(st) ==
  IF st.col = 0
  THEN [st EXCEPT !.col = 1, !.curY = p3_top]
  ELSE [st EXCEPT !.page = @ + 1, !.col = 0, !.curY = p3_top]

\* ensureSpace(requiredH)
p3_ensureSpace(st, requiredH) ==
  IF st.curY - requiredH < margin THEN p3_advance(st) ELSE st

\* the loop `for (const line of wrapped)` from captionY down, and
\* `nextY = captionY - 6` after it
RECURSIVE p3_drawCaption(_, _, _)
p3_drawCaption(st, lines, captionY) ==
  IF lines = <<>> THEN [st EXCEPT !.nextY = captionY - 6]
  ELSE p3_drawCaption(
         [st EXCEPT !.placed =
            Append(@, Placement(st.page, "caption", st.x, captionY, 0, 0, 0, Head(lines)))],
         Tail(lines), captionY - lineHeight)

\* the head of one iteration of `for (const g of groups)`: x, then
\* ensureSpace(cellHFirst), then the caption
p3_groupHead(st, k) ==
  LET s0 == [st EXCEPT !.x = p3_colX(st.col)]
      s1 == p3_ensureSpace(s0, cellHFirst)
      wrapped == wrapText(groups[k].caption, colW, p4_maxCaptionLines)
  IN p3_drawCaption(s1, wrapped, s1.curY - lineHeight)

\* what downloadOriginal, compressToJpeg and pdf.embedJpg may do for an image
P3ImageOutcomes ==
  [fetch : FetchOutcomes, decode : {FALSE}, size : {<<0, 0>>}]
  \cup [fetch : {f \in FetchOutcomes : f.ab = "ok"}, decode : {TRUE}, size : P4ImageSizes]

\* drawImageBelow(yTop, x, fileId): the placement it makes on `p` and the
\* position it returns
drawImageBelow(p, yTop, xx, fileId, o) ==
  IF downloadOriginal(o.fetch) = "null"
  THEN [y |-> yTop - (imageMaxH + 12),
        made |-> Placement(p, "[failed to download image]", xx, yTop - lineHeight,
                           0, 0, fileId, <<>>)]
  ELSE IF o.decode
  THEN LET s == fit(o.size[1], o.size[2])
       IN [y |-> yTop - (s.h + 12),
           made |-> Placement(p, "image", xx, yTop - s.h, s.w, s.h, fileId, <<>>)]
  ELSE [y |-> yTop - (imageMaxH + 12),
        made |-> Placement(p, "[image processing failed]", xx, yTop - lineHeight,
                           0, 0, fileId, <<>>)]

\* The synchronous code between two awaits of the group loop.  Each operator
\* hands back the cursor, the group and image indexes, and the await reached:
\* "p3_first" (the first image of group k), "p3_next" (image ix + 1 of group
\* k) or "p3_save" (pdf.save()).
RECURSIVE p3_enter(_, _), p3_loop(_, _, _), p3_tail(_, _)

\* from the top of the iteration for group k
p3_enter(st, k) ==
  LET s == p3_groupHead(st, k)
  IN IF groups[k].fileIds # <<>>
     THEN [st |-> s, i |-> k, idx |-> 0, pc |-> "p3_first"]
     ELSE p3_tail(s, k)

\* from the test `idx < g.fileIds.length` of group k with idx = ix
p3_loop(st, k, ix) ==
  IF ix < Len(groups[k].fileIds)
  THEN LET s1 == p3_ensureSpace(st, cellHNoCaption)
           x2 == p3_colX(s1.col)
           s2 == IF x2 # s1.x THEN [s1 EXCEPT !.nextY = s1.curY] ELSE s1
       IN [st |-> s2, i |-> k, idx |-> ix, pc |-> "p3_next"]
  ELSE p3_tail(st, k)

\* after the images of group k: curY for the next group, the spacing, the
\* advance when the spacing went below the margin, and the next iteration
p3_tail(st, k) ==
  LET s1 == IF groups[k].fileIds # <<>>
            THEN [st EXCEPT !.curY = st.nextY]
            ELSE [st EXCEPT !.curY = @ - (captionBlockH + 12)]
      s2 == [s1 EXCEPT !.curY = @ - 12]
      s3 == IF s2.curY < margin THEN p3_advance(s2) ELSE s2
  IN IF k < Len(groups)
     THEN p3_enter(s3, k + 1)
     ELSE [st |-> s3, i |-> k, idx |-> 0, pc |-> "p3_save"]

\* the cursor held by the variables (i is the number of the group being laid
\* out, idx the `idx` of its inner loop)
p3_cursor ==
  [page |-> page, col |-> col, curY |-> curY, nextY |-> nextY, x |-> xGroup,
   placed |-> placed]

\* the variables take the values the synchronous code leaves
p3_resume(r) ==
  /\ page' = r.st.page
  /\ col' = r.st.col
  /\ curY' = r.st.curY
  /\ nextY' = r.st.nextY
  /\ xGroup' = r.st.x
  /\ placed' = r.st.placed
  /\ i' = r.i
  /\ idx' = r.idx
  /\ pc' = r.pc
  /\ thrown' = FALSE

\* what the layout of part_003 never touches
p3rest ==
  <<messages, imgs, cells, pages, lastFetch, reserved, sent, dlOk, permalink, fid,
    calls, lastPoll, matched, sleeps, attached, failedStage, err, ADD_SPANISH,
    y, hLeft, fetches, alone>>

InitPart003 ==
  /\ InitIndex
  /\ ADD_SPANISH = FALSE

\* chat.update "Step 2/4: Grouping images by message", the grouping loop and
\* `if (!groups.length)`
P3UpdGrouping ==
  /\ pc = "ix_upd2"
  /\ \E ok \in BOOLEAN :
       /\ log' = Append(log, Step(2, ok))
       /\ IF ok
          THEN /\ groups' = GroupMessages(messages)
               /\ thrown' = FALSE
               /\ IF groups' = <<>>
                  THEN pc' = "ix_upd_noimages" /\ outcome' = "NoImages"
                  ELSE pc' = "p3_upd3" /\ outcome' = outcome
          ELSE Throw /\ UNCHANGED <<groups, outcome>>
  /\ UNCHANGED <<byteLen, p3rest, page, col, curY, nextY, xGroup, placed, i, idx>>

\* chat.update "Step 3/4: Building PDF for N images", PDFDocument.create,
\* embedFont, the first addPage, and the group loop up to its first await
P3UpdBuilding ==
  /\ pc = "p3_upd3"
  /\ \E ok \in BOOLEAN :
       /\ log' = Append(log, Step(3, ok))
       /\ IF ok
          THEN p3_resume(p3_enter([page |-> 1, col |-> 0, curY |-> p3_top,
                                   nextY |-> 0, x |-> 0, placed |-> <<>>], 1))
          ELSE Throw /\ UNCHANGED <<page, col, curY, nextY, xGroup, placed, i, idx>>
  /\ UNCHANGED <<byteLen, p3rest, groups, outcome>>

\* nextY = await drawImageBelow(nextY, x, g.fileIds[0]), and the code up to
\* the next await
P3First ==
  /\ pc = "p3_first"
  /\ \E o \in P3ImageOutcomes :
       LET r == drawImageBelow(page, nextY, xGroup, groups[i].fileIds[1], o)
           st == [p3_cursor EXCEPT !.nextY = r.y, !.placed = Append(@, r.made)]
       IN p3_resume(p3_loop(st, i, 1))
  /\ UNCHANGED <<log, byteLen, p3rest, groups, outcome>>

\* nextY = await drawImageBelow(nextY, x2, g.fileIds[idx]); curY = nextY;
\* idx++, and the code up to the next await
P3Next ==
  /\ pc = "p3_next"
  /\ \E o \in P3ImageOutcomes :
       LET r == drawImageBelow(page, nextY, p3_colX(col), groups[i].fileIds[idx + 1], o)
           st == [p3_cursor EXCEPT !.nextY = r.y, !.curY = r.y,
                                   !.placed = Append(@, r.made)]
       IN p3_resume(p3_loop(st, i, idx + 1))
  /\ UNCHANGED <<log, byteLen, p3rest, groups, outcome>>

\* pdfBytes = await pdf.save(); bodyBuf = Buffer.from(pdfBytes).  The layout
\* variables are dead from here on.
P3Save ==
  /\ pc = "p3_save"
  /\ \E n \in 1..MaxBytes : byteLen' = n
  /\ placed' = <<>>
  /\ curY' = 0 /\ nextY' = 0 /\ xGroup' = 0 /\ col' = 0
  /\ pc' = "ix_upd4"
  /\ UNCHANGED <<thrown, log, p3rest, groups, outcome, page, i, idx>>

NextPart003 ==
  \/ IxStart \/ IxUpdReading \/ IxReplies \/ P3UpdGrouping \/ IxUpdNoImages
  \/ P3UpdBuilding \/ P3First \/ P3Next \/ P3Save
  \/ IxUpdUploading \/ IxUpload \/ IxUpdFailed \/ IxUpdDone

SpecPart003 == InitPart003 /\ [][NextPart003]_vars

\* C19 (as claimed): in the layout of part_003 every image placement lies
\* inside the content area of its page vertically: its bottom is at or above
\* the bottom margin and its top is at or below pageH - margin.
C19_ImagesInsideContentArea ==
  \A n \in DOMAIN placed :
    placed[n].kind = "image" =>
      /\ placed[n].y >= margin
      /\ placed[n].y + placed[n].h <= pageH - margin

\* ======================================================================
\* wrap (src/src/index.ts) and wrapText (part_003, part_004) on their own
\* ======================================================================

\* the words joined by single runs of whitespace
RECURSIVE Join(_)
Join(ws) ==
  IF ws = <<>> THEN <<>>
  ELSE IF Len(ws) = 1 THEN ws
  ELSE <<Head(ws), 0>> \o Join(Tail(ws))

\* texts of up to MaxWords words, narrow or wide, with or without leading
\* and trailing whitespace; <<>> also stands for a missing text (text || "")
WrapTexts ==
  { (IF lead THEN <<0>> ELSE <<>>) \o Join(ws) \o (IF trail THEN <<0>> ELSE <<>>) :
      lead \in BOOLEAN, trail \in BOOLEAN,
      ws \in UNION { [1..n -> {3, 30}] : n \in 0..MaxWords } }

\* the calls the handlers make: wrap(g.caption, contentW, captionSize,
\* maxCaptionLines), wrap(g.captionEs, contentW, captionEsSize,
\* maxCaptionEsLines), wrapText(caption, colW, maxCaptionLines); the width is
\* also taken narrower and as 0
WrapCalls ==
  { [fn |-> c[1], text |-> t, maxWidth |-> mw, size |-> c[2], maxLines |-> c[3]] :
      c \in { <<"wrap", captionSize, maxCaptionLines>>,
              <<"wrap", captionEsSize, maxCaptionEsLines>>,
              <<"wrapText", p4_captionSize, p4_maxCaptionLines>> },
      t \in WrapTexts, mw \in {0, colW, contentW} }

InitWrap ==
  /\ pc = "wrap"
  /\ thrown = FALSE
  /\ log = <<>>
  /\ messages = <<>>
  /\ imgs = <<>>
  /\ i = 0
  /\ cells = <<>>
  /\ col = 0
  /\ curY = 0
  /\ pages = 0
  /\ lastFetch = NoFetch
  /\ byteLen = 0
  /\ reserved = 0
  /\ sent = <<>>
  /\ dlOk = FALSE
  /\ permalink = FALSE
  /\ fid = FALSE
  /\ calls = NoCalls
  /\ lastPoll = NoPoll
  /\ matched = FALSE
  /\ sleeps = 0
  /\ attached = 0
  /\ outcome = "none"
  /\ failedStage = "none"
  /\ err = ""
  /\ ADD_SPANISH = FALSE
  /\ groups = <<>>
  /\ idx = 0
  /\ page = 0
  /\ y = 0
  /\ placed = <<>>
  /\ hLeft = 0
  /\ fetches = <<>>
  /\ nextY = 0
  /\ xGroup = 0
  /\ wrapIn \in WrapCalls
  /\ wrapOut = <<>>
  /\ scaleIn = <<0, 0>>
  /\ scaleOut = <<>>
  /\ nameIn = <<>>
  /\ nameOut = <<>>
  /\ active = 1
  /\ parked = NoRequest
  /\ followIn = NoFollowUp
  /\ followOut = <<>>
  /\ sigIn = NoRequest
  /\ sigOut = <<>>

\* the call itself
Wrap ==
  /\ pc = "wrap"
  /\ wrapOut' = IF wrapIn.fn = "wrap"
                THEN wrap(wrapIn.text, wrapIn.maxWidth, wrapIn.size, wrapIn.maxLines)
                ELSE wrapText(wrapIn.text, wrapIn.maxWidth, wrapIn.maxLines)
  /\ pc' = "wrapped"
  /\ UNCHANGED <<thrown, log, thread, build, upload, verify, result, ADD_SPANISH,
                 groups, idx, page, y, placed, hLeft, fetches, p3only, conc, following, signing, wrapIn,
                 scaling, naming>>

NextWrap == Wrap

SpecWrap == InitWrap /\ [][NextWrap]_vars

\* C20: a call of wrap (index.ts, maxLines 8) or wrapText (maxLines 6)
\* returns without raising, returns at most maxLines lines, and returns
\* exactly maxLines lines when the same wrapping without the cut needs more
\* than maxLines lines.
Untruncated ==
  LET words == Split(wrapIn.text)
      r == wrapLoop(words, <<>>, <<>>, wrapIn.maxWidth, wrapIn.size, Len(words) + 2)
  IN IF r.cur # <<>> THEN Append(r.lines, r.cur) ELSE r.lines

C20_WrapAtMostMaxLines ==
  pc = "wrapped" =>
    /\ ~thrown
    /\ Len(wrapOut) <= wrapIn.maxLines
    /\ Len(Untruncated) > wrapIn.maxLines => Len(wrapOut) = wrapIn.maxLines

C20_Witness ==
  /\ pc = "wrapped"
  /\ wrapIn.fn = "wrap"
  /\ wrapIn.maxWidth = contentW
  /\ Len(Untruncated) > wrapIn.maxLines
  /\ Len(wrapOut) = maxCaptionLines

\* C21 (as claimed): the result of wrap is the first maxLines lines of the
\* wrapping of the same words without the cut, so that the last kept line is
\* packed like every other line.
FirstLines(lines, n) == SubSeq(lines, 1, IF Len(lines) < n THEN Len(lines) ELSE n)

C21_WrapIsTruncatedGreedy ==
  (pc = "wrapped" /\ wrapIn.fn = "wrap") =>
    wrapOut = FirstLines(Untruncated, wrapIn.maxLines)

\* C22 (as claimed): in the layout of index.ts a group whose caption is
\* empty takes no vertical space for its caption block: no caption run is
\* drawn before its first tile, and when it is the first group its first
\* tile has its top at the cursor the title leaves; its images are placed.
TileTop(pl) == IF pl.kind = "image" THEN pl.y + pl.h ELSE pl.y + lineH

C22_EmptyCaptionTakesNoSpace ==
  \A n \in DOMAIN placed : \A k \in DOMAIN groups :
    (groups[k].caption = <<>> /\ placed[n].ref = groups[k].fileIds[1]) =>
      /\ n > 1 /\ placed[n - 1].kind # "caption"
      /\ k = 1 => TileTop(placed[n]) = titled.y

\* ======================================================================
\* the scaling of drawTile (src/src/index.ts) in the arithmetic of the build
\* ======================================================================
\* iw, ih, tileW and tileHMax are numbers of JavaScript: IEEE 754 doubles.
\* A positive number is held exactly as [ip, fr]: its integer part and the
\* bits of its fraction, most significant first.  Every division and
\* multiplication rounds its exact result to MantissaBits significant bits,
\* to nearest, ties to even.
MantissaBits == 53
MaxDim == 12        \* img.width and img.height range over 1..MaxDim

RECURSIVE BitLen(_)
BitLen(n) == IF n = 0 THEN 0 ELSE 1 + BitLen(n \div 2)

\* the j-th bit of a fraction
BitAt(f, j) == IF j <= Len(f) THEN f[j] ELSE 0

Ones(fr) == {j \in DOMAIN fr : fr[j] = 1}
Zeros(fr) == {j \in DOMAIN fr : fr[j] = 0}
Least(S) == CHOOSE j \in S : \A k \in S : j <= k
Greatest(S) == CHOOSE j \in S : \A k \in S : j >= k

\* the number of zero bits before the first one bit
LeadingZeros(fr) == IF Ones(fr) = {} THEN Len(fr) ELSE Least(Ones(fr)) - 1

\* fr without its trailing zero bits
StripZeros(fr) == IF Ones(fr) = {} THEN <<>> ELSE SubSeq(fr, 1, Greatest(Ones(fr)))

\* the same number without trailing zero bits
Norm(v) == [ip |-> v.ip, fr |-> StripZeros(v.fr)]

Whole(n) == [ip |-> n, fr |-> <<>>]

\* one unit in the last place of the fraction added
IncFr(fr) ==
  IF Zeros(fr) = {} THEN [fr |-> [j \in DOMAIN fr |-> 0], carry |-> 1]
  ELSE LET p == Greatest(Zeros(fr))
       IN [fr |-> [j \in DOMAIN fr |-> IF j < p THEN fr[j] ELSE IF j = p THEN 1 ELSE 0],
           carry |-> 0]

\* the double nearest to the exact number v (ties to even)
RoundToDouble(v) ==
  LET keep == IF v.ip > 0 THEN MantissaBits - BitLen(v.ip)
              ELSE LeadingZeros(v.fr) + MantissaBits
  IN IF Len(v.fr) <= keep THEN Norm(v)
     ELSE LET kept == SubSeq(v.fr, 1, keep)
              guard == v.fr[keep + 1]
              sticky == \E j \in (keep + 2)..Len(v.fr) : v.fr[j] = 1
              lastKept == IF keep = 0 THEN v.ip % 2 ELSE kept[keep]
              r == IncFr(kept)
          IN IF guard = 1 /\ (sticky \/ lastKept = 1)
             THEN Norm([ip |-> v.ip + r.carry, fr |-> r.fr])
             ELSE Norm([ip |-> v.ip, fr |-> kept])

\* the 8 bits of n < 256, and the number 8 bits of fr from the a-th on make
Byte(n) == [j \in 1..8 |-> (n \div 2 ^ (8 - j)) % 2]
ByteAt(fr, a) ==
  BitAt(fr, a) * 128 + BitAt(fr, a + 1) * 64 + BitAt(fr, a + 2) * 32
    + BitAt(fr, a + 3) * 16 + BitAt(fr, a + 4) * 8 + BitAt(fr, a + 5) * 4
    + BitAt(fr, a + 6) * 2 + BitAt(fr, a + 7)

\* the fraction bits of r / b (r < b) by long division, 8 bits at a time,
\* until `need` significant bits are there (sig: those already there)
RECURSIVE DivFr(_, _, _, _)
DivFr(r, b, sig, need) ==
  IF sig >= need THEN [fr |-> <<>>, rem |-> r]
  ELSE LET bits == Byte((r * 256) \div b)
           sig2 == IF sig > 0 THEN sig + 8 ELSE 8 - LeadingZeros(bits)
           rest == DivFr((r * 256) % b, b, sig2, need)
       IN [fr |-> bits \o rest.fr, rem |-> rest.rem]

\* a / b in doubles, for whole a > 0 and b > 0: the exact quotient to one bit
\* past the mantissa and a last bit telling whether anything is left, rounded
fdiv(a, b) ==
  LET ip == a \div b
      d == DivFr(a % b, b, BitLen(ip), MantissaBits + 1)
      keep == IF ip > 0 THEN MantissaBits + 1 - BitLen(ip)
              ELSE LeadingZeros(d.fr) + MantissaBits + 1
      left == d.rem # 0 \/ \E j \in (keep + 1)..Len(d.fr) : d.fr[j] = 1
  IN RoundToDouble([ip |-> ip,
                    fr |-> Append(SubSeq(d.fr, 1, keep), IF left THEN 1 ELSE 0)])

\* the exact product of the whole number k and v: the bits of the fraction
\* from the j-th on times k, 8 bits at a time, and the carry into the bit
\* before them
RECURSIVE MulFr(_, _, _)
MulFr(fr, k, j) ==
  IF j > Len(fr) THEN [fr |-> <<>>, carry |-> 0]
  ELSE LET r == MulFr(fr, k, j + 8)
           t == ByteAt(fr, j) * k + r.carry
       IN [fr |-> Byte(t % 256) \o r.fr, carry |-> t \div 256]

Times(k, v) ==
  LET r == MulFr(v.fr, k, 1)
  IN Norm([ip |-> v.ip * k + r.carry, fr |-> r.fr])

\* k * v in doubles
fmul(k, v) == RoundToDouble(Times(k, v))

\* v <= u, exactly
FrLeq(f, g) ==
  LET differ == {j \in 1..Max(Len(f), Len(g)) : BitAt(f, j) # BitAt(g, j)}
  IN differ = {} \/ BitAt(f, Least(differ)) < BitAt(g, Least(differ))

Leq(v, u) == v.ip < u.ip \/ (v.ip = u.ip /\ FrLeq(v.fr, u.fr))

\* Math.min
fmin(v, u) == IF Leq(v, u) THEN v ELSE u

\* mutant: the scale of the width alone
scaleOf_WidthOnly(iw, ih) == fdiv(tileW, iw)

\* scale = Math.min(tileW / iw, tileHMax / ih)
scaleOf(iw, ih) == fmin(fdiv(tileW, iw), fdiv(tileHMax, ih))

\* w = iw * scale, h = ih * scale
placedSize(iw, ih, scale) == [w |-> fmul(iw, scale), h |-> fmul(ih, scale)]

\* the sizes of a decoded image: all small ones and two a telephone makes
\* (compressToJpeg hands back at most 1800 x 1800)
ScaleSizes == ((1..MaxDim) \X (1..MaxDim)) \cup {<<750, 1334>>, <<1350, 1800>>}

InitScale ==
  /\ pc = "scale"
  /\ thrown = FALSE
  /\ log = <<>>
  /\ messages = <<>>
  /\ imgs = <<>>
  /\ i = 0
  /\ cells = <<>>
  /\ col = 0
  /\ curY = 0
  /\ pages = 0
  /\ lastFetch = NoFetch
  /\ byteLen = 0
  /\ reserved = 0
  /\ sent = <<>>
  /\ dlOk = FALSE
  /\ permalink = FALSE
  /\ fid = FALSE
  /\ calls = NoCalls
  /\ lastPoll = NoPoll
  /\ matched = FALSE
  /\ sleeps = 0
  /\ attached = 0
  /\ outcome = "none"
  /\ failedStage = "none"
  /\ err = ""
  /\ ADD_SPANISH = FALSE
  /\ groups = <<>>
  /\ idx = 0
  /\ page = 0
  /\ y = 0
  /\ placed = <<>>
  /\ hLeft = 0
  /\ fetches = <<>>
  /\ nextY = 0
  /\ xGroup = 0
  /\ wrapIn = NoWrap
  /\ wrapOut = <<>>
  /\ scaleIn \in ScaleSizes
  /\ scaleOut = <<>>
  /\ nameIn = <<>>
  /\ nameOut = <<>>
  /\ active = 1
  /\ parked = NoRequest
  /\ followIn = NoFollowUp
  /\ followOut = <<>>
  /\ sigIn = NoRequest
  /\ sigOut = <<>>

\* const scale = Math.min(tileW / iw, tileHMax / ih)
ScaleFactor ==
  /\ pc = "scale"
  /\ scaleOut' = [scale |-> scaleOf(scaleIn[1], scaleIn[2])]
  /\ pc' = "scale_size"
  /\ UNCHANGED <<thrown, log, thread, build, upload, verify, result, ADD_SPANISH,
                 groups, idx, page, y, placed, hLeft, fetches, p3only, conc, following, signing, wrapping,
                 scaleIn, naming>>

\* const w = iw * scale, h = ih * scale
ScaleSize ==
  /\ pc = "scale_size"
  /\ scaleOut' = placedSize(scaleIn[1], scaleIn[2], scaleOut.scale)
  /\ pc' = "scaled"
  /\ UNCHANGED <<thrown, log, thread, build, upload, verify, result, ADD_SPANISH,
                 groups, idx, page, y, placed, hLeft, fetches, p3only, conc, following, signing, wrapping,
                 scaleIn, naming>>

NextScale == ScaleFactor \/ ScaleSize

SpecScale == InitScale /\ [][NextScale]_vars

\* C23 (as claimed): the placed size of a decoded iw x ih image satisfies
\* w <= tileW, h <= tileHMax and w * ih = h * iw, and w = tileW or
\* h = tileHMax.
C23_FitsExactly ==
  pc = "scaled" =>
    /\ Leq(scaleOut.w, Whole(tileW))
    /\ Leq(scaleOut.h, Whole(tileHMax))
    /\ Times(scaleIn[2], scaleOut.w) = Times(scaleIn[1], scaleOut.h)
    /\ scaleOut.w = Whole(tileW) \/ scaleOut.h = Whole(tileHMax)

\* C23 (amended): the same four relations hold to within 2^-30 (less than
\* 10^-9): w <= tileW and h <= tileHMax, w * ih and h * iw differ by no
\* more than that, and w or h is that near to its limit.
\* v + 2^-30, exactly
PlusEps(v) ==
  LET r == IncFr([j \in 1..30 |-> BitAt(v.fr, j)])
  IN [ip |-> v.ip + r.carry, fr |-> r.fr \o SubSeq(v.fr, 31, Len(v.fr))]

Within(v, u) == Leq(v, PlusEps(u)) /\ Leq(u, PlusEps(v))

C23_FitsWithinRounding ==
  pc = "scaled" =>
    /\ Leq(scaleOut.w, PlusEps(Whole(tileW)))
    /\ Leq(scaleOut.h, PlusEps(Whole(tileHMax)))
    /\ Within(Times(scaleIn[2], scaleOut.w), Times(scaleIn[1], scaleOut.h))
    /\ Within(scaleOut.w, Whole(tileW)) \/ Within(scaleOut.h, Whole(tileHMax))

C23_Witness ==
  /\ pc = "scaled"
  /\ scaleIn = <<750, 1334>>
  /\ ~Leq(scaleOut.h, Whole(tileHMax))
  /\ Leq(scaleOut.w, Whole(tileW))

\* C24: in the layout of index.ts the images of a group are placed two per
\* row: the two tiles of a row are on the same page, the left one at the
\* margin and the right one a tile and a gutter further, with their tops at
\* the same height; the next row of the group starts below the taller of the
\* two (an unavailable image counting as tileHMax, a missing right one as 0)
\* plus the row gap, or at the top of a new page when it does not fit; and
\* after the last row the cursor is below it by the same amount and the gap
\* between groups.
PlacedAt(id) == CHOOSE n \in DOMAIN placed : placed[n].ref = id
IsPlaced(id) == \E n \in DOMAIN placed : placed[n].ref = id
HeightOf(pl) == IF pl.kind = "image" THEN pl.h ELSE tileHMax

\* the height of the row of group k whose left tile is image j
RowHeight(k, j) ==
  LET ids == groups[k].fileIds
      hL == HeightOf(placed[PlacedAt(ids[j])])
      hR == IF j + 1 <= Len(ids) THEN HeightOf(placed[PlacedAt(ids[j + 1])]) ELSE 0
  IN IF hL >= hR THEN hL ELSE hR

RowComplete(k, j) ==
  LET ids == groups[k].fileIds
  IN IsPlaced(ids[j]) /\ (j + 1 <= Len(ids) => IsPlaced(ids[j + 1]))

C24_TwoPerRow ==
  \A k \in DOMAIN groups : \A j \in DOMAIN groups[k].fileIds :
    (j % 2 = 1 /\ RowComplete(k, j)) =>
      LET ids == groups[k].fileIds
          left == placed[PlacedAt(ids[j])]
          below == TileTop(left) - (RowHeight(k, j) + rowGap)
      IN /\ left.x = margin
         /\ j + 1 <= Len(ids) =>
              LET right == placed[PlacedAt(ids[j + 1])]
              IN /\ right.page = left.page
                 /\ right.x = margin + tileW + gutter
                 /\ TileTop(right) = TileTop(left)
         /\ (j + 2 <= Len(ids) /\ IsPlaced(ids[j + 2])) =>
              LET next == placed[PlacedAt(ids[j + 2])]
              IN IF below - (tileHMax + rowGap) < margin
                 THEN next.page = left.page + 1 /\ TileTop(next) = pageH - margin
                 ELSE next.page = left.page /\ TileTop(next) = below
         /\ (pc = "ix_save" /\ k = Len(groups) /\ j + 2 > Len(ids)) =>
              y = below - groupGap

C24_Witness ==
  \E k \in DOMAIN groups :
    LET ids == groups[k].fileIds
    IN /\ Len(ids) = 3
       /\ IsPlaced(ids[3])
       /\ placed[PlacedAt(ids[1])].kind = "image"
       /\ placed[PlacedAt(ids[2])].kind = "image"
       /\ placed[PlacedAt(ids[1])].h < placed[PlacedAt(ids[2])].h
       /\ placed[PlacedAt(ids[3])].page = placed[PlacedAt(ids[1])].page
       /\ TileTop(placed[PlacedAt(ids[3])])
             = TileTop(placed[PlacedAt(ids[1])]) - (placed[PlacedAt(ids[2])].h + rowGap)

\* C25 (as claimed): the layout is single-pass: pages are only added, every
\* new text run or image goes to the page that is the latest when it is
\* drawn, and as long as the page is the same the vertical cursor (y in
\* index.ts, curY in part_003) does not go up.
NewPlacementsOnLatestPage ==
  \A n \in DOMAIN placed' :
    n > Len(placed) => (placed'[n].page >= page /\ placed'[n].page <= page')

PagesInOrder ==
  \A n \in DOMAIN placed : n > 1 => placed[n - 1].page <= placed[n].page

C25_SinglePass ==
  [][/\ page' >= page
     /\ NewPlacementsOnLatestPage
     /\ PagesInOrder'
     /\ page' = page => (y' <= y /\ curY' <= curY)]_vars

\* C25 (amended): the same, the cursor not going up as long as the page and
\* the column are the same.
C25_SinglePassPerColumn ==
  [][/\ page' >= page
     /\ NewPlacementsOnLatestPage
     /\ PagesInOrder'
     /\ (page' = page /\ col' = col) => (y' <= y /\ curY' <= curY)]_vars

C25_Witness ==
  /\ page = 1
  /\ col = 1
  /\ \E n \in DOMAIN placed : placed[n].x = p3_colX(1)
  /\ \E n \in DOMAIN placed : placed[n].x = p3_colX(0)

\* ------------------------------------------------------------ C27
\* whether the text `s` occurs in the line `l`
Contains(l, s) ==
  \E a \in 1..(Len(l) + 1 - Len(s)) : SubSeq(l, a, a + Len(s) - 1) = s

\* the text runs of the document that show the caption `c`
RunsShowing(c) ==
  {n \in DOMAIN placed : placed[n].kind \in {"title", "caption"} /\ Contains(placed[n].line, c)}

ImagePlacements == {n \in DOMAIN placed : placed[n].kind = "image"}

\* Scenario A: the thread is one message with a short text and one image
\* file, the image was fetched and decoded, and the layout has ended
ScenarioA ==
  /\ pc = "ix_save"
  /\ Len(messages) = 1
  /\ trim(messages[1].text) # <<>>
  /\ Len(wrap(<<NumW, 0>> \o trim(messages[1].text), contentW, captionSize,
              maxCaptionLines)) = 1
  /\ Len(messages[1].files) = 1
  /\ messages[1].files[1].image
  /\ Len(fetches) = 1
  /\ fetches[1].image

\* C27 (as stated): a thread of one message with a short caption and one
\* image that fetches and decodes gives exactly one group, one page, one
\* image placement and exactly one text run containing the caption.
C27_ScenarioA_OneRun ==
  ScenarioA =>
    /\ Len(groups) = 1
    /\ page = 1
    /\ Cardinality(ImagePlacements) = 1
    /\ Cardinality(RunsShowing(groups[1].caption)) = 1

\* C27 (amended): one group, one page, one image placement, and two text runs
\* containing the caption: the document title, which is the root message's
\* text, and the numbered caption line; any other text run is a line of the
\* Spanish translation.
C27_ScenarioA_TitleAndCaption ==
  ScenarioA =>
    /\ Len(groups) = 1
    /\ page = 1
    /\ Cardinality(ImagePlacements) = 1
    /\ Cardinality(RunsShowing(groups[1].caption)) = 2
    /\ \E n, m \in RunsShowing(groups[1].caption) :
         placed[n].kind = "title" /\ placed[m].kind = "caption"
    /\ \A n \in DOMAIN placed :
         placed[n].kind \in {"title", "caption", "captionEs", "image"}
    /\ \A n \in DOMAIN placed :
         placed[n].kind = "captionEs" => ADD_SPANISH /\ groups[1].captionEs # <<>>

C27_Witness == ScenarioA /\ ~ADD_SPANISH /\ Len(placed) = 3

\* ------------------------------------------------------------ sanitizeForFilename
\* Here a string is a sequence of characters, one per class of character the
\* two regular expressions and trim tell apart: "a" and "_" are ordinary,
\* "<" is one of < > : " / \ | ? *, "ctl" a control character that is not
\* whitespace (\x01), "tab" one that is (\t, \n, \r), " " a space and "nbsp" a
\* whitespace character above \x1F.
Invalid == {"<", "ctl", "tab"}
Whitespace == {" ", "nbsp", "tab"}
NameChars == {"a", "_", "<", "ctl", "tab", " ", "nbsp"}

\* the default of the parameter `max`
maxName == 80
\* the longest head and tail put around a run of ordinary characters
MaxAffix == 2

Export == <<"E", "x", "p", "o", "r", "t">>
Pdf == <<".", "p", "d", "f">>

\* .replace(/[<>:"/\\|?*\x00-\x1F]/g, "_")
replaceInvalid(s) == [n \in 1..Len(s) |-> IF s[n] \in Invalid THEN "_" ELSE s[n]]

\* .replace(/\s+/g, " "): the first character of every whitespace run stays,
\* as a space
collapseWhitespace(s) ==
  LET at == [n \in 1..Len(s) |->
               [c |-> IF s[n] \in Whitespace THEN " " ELSE s[n],
                first |-> ~(s[n] \in Whitespace /\ n > 1 /\ s[n - 1] \in Whitespace)]]
      IsFirst(e) == e.first
      kept == SelectSeq(at, IsFirst)
  IN [n \in 1..Len(kept) |-> kept[n].c]

\* .trim() on characters
trimChars(s) ==
  LET ink == {n \in 1..Len(s) : s[n] \notin Whitespace}
  IN IF ink = {} THEN <<>> ELSE SubSeq(s, Least(ink), Greatest(ink))

\* .slice(0, max)
slice(s, max) == IF Len(s) <= max THEN s ELSE SubSeq(s, 1, max)

\* sanitizeForFilename(s, max = 80)
sanitizeForFilename(s) ==
  LET cleaned == trimChars(collapseWhitespace(replaceInvalid(IF s = <<>> THEN Export ELSE s)))
  IN slice(IF cleaned = <<>> THEN Export ELSE cleaned, maxName)

\* the strings sanitizeForFilename is applied to: a run of ordinary characters
\* of a length around `max`, or none, between a short head and a short tail
Affixes == UNION { [1..n -> NameChars] : n \in 0..MaxAffix }
Fill(n) == [k \in 1..n |-> "a"]
FillLens == {0, maxName - 3, maxName - 2, maxName - 1, maxName}
NameInputs == { h \o Fill(n) \o t : h \in {<<>>, <<" ">>, <<"<">>}, n \in FillLens, t \in Affixes }

InitName ==
  /\ pc = "name"
  /\ thrown = FALSE
  /\ log = <<>>
  /\ messages = <<>>
  /\ imgs = <<>>
  /\ i = 0
  /\ cells = <<>>
  /\ col = 0
  /\ curY = 0
  /\ pages = 0
  /\ lastFetch = NoFetch
  /\ byteLen = 0
  /\ reserved = 0
  /\ sent = <<>>
  /\ dlOk = FALSE
  /\ permalink = FALSE
  /\ fid = FALSE
  /\ calls = NoCalls
  /\ lastPoll = NoPoll
  /\ matched = FALSE
  /\ sleeps = 0
  /\ attached = 0
  /\ outcome = "none"
  /\ failedStage = "none"
  /\ err = ""
  /\ ADD_SPANISH = FALSE
  /\ groups = <<>>
  /\ idx = 0
  /\ page = 0
  /\ y = 0
  /\ placed = <<>>
  /\ hLeft = 0
  /\ fetches = <<>>
  /\ nextY = 0
  /\ xGroup = 0
  /\ wrapIn = NoWrap
  /\ wrapOut = <<>>
  /\ scaleIn = <<0, 0>>
  /\ scaleOut = <<>>
  /\ nameIn \in NameInputs
  /\ nameOut = <<>>
  /\ active = 1
  /\ parked = NoRequest
  /\ followIn = NoFollowUp
  /\ followOut = <<>>
  /\ sigIn = NoRequest
  /\ sigOut = <<>>

\* const fileBase = sanitizeForFilename(rootText || ...)
Sanitize ==
  /\ pc = "name"
  /\ nameOut' = sanitizeForFilename(nameIn)
  /\ pc' = "named"
  /\ UNCHANGED <<thrown, log, thread, build, upload, verify, result, ADD_SPANISH,
                 groups, idx, page, y, placed, hLeft, fetches, p3only, conc, following, signing, wrapping,
                 scaling, nameIn>>

\* const filename = `${fileBase}.pdf`
FileName ==
  /\ pc = "named"
  /\ nameOut' = nameOut \o Pdf
  /\ pc' = "filename"
  /\ UNCHANGED <<thrown, log, thread, build, upload, verify, result, ADD_SPANISH,
                 groups, idx, page, y, placed, hLeft, fetches, p3only, conc, following, signing, wrapping,
                 scaling, nameIn>>

NextName == Sanitize \/ FileName

SpecName == InitName /\ [][NextName]_vars

\* ------------------------------------------------------------ C28
\* a file base as the claim describes it
CleanName(s) ==
  /\ s # <<>>
  /\ Len(s) <= maxName
  /\ \A n \in DOMAIN s : s[n] \notin Invalid
  /\ \A n \in DOMAIN s : n > 1 => ~(s[n] \in Whitespace /\ s[n - 1] \in Whitespace)
  /\ s[1] \notin Whitespace
  /\ s[Len(s)] \notin Whitespace

\* C28: for every input string sanitizeForFilename returns a non-empty string
\* of at most 80 characters with no invalid or control character, no run of
\* two or more whitespace characters and no leading or trailing whitespace;
\* applied to its own output it returns that output; the filename is the
\* value followed by ".pdf".
C28_SanitizedName ==
  /\ pc = "named" => (CleanName(nameOut) /\ sanitizeForFilename(nameOut) = nameOut)
  /\ pc = "filename" =>
       /\ Len(nameOut) > Len(Pdf)
       /\ SubSeq(nameOut, Len(nameOut) - Len(Pdf) + 1, Len(nameOut)) = Pdf
       /\ CleanName(SubSeq(nameOut, 1, Len(nameOut) - Len(Pdf)))

\* ------------------------------------------------------------ C29
\* the notifications about the run's progress: every entry but the posts of
\* the document's permalink
IsProgress(e) == e.kind # "permalink"

\* C29: exactly one progress message is newly posted, the start notification,
\* and every later stage notification is a chat.update of that message
\* (ts: progress_ts); the step numbers shown do not decrease; the terminal
\* notification is the last update of the message.
C29_OneProgressMessageUpdatedInPlace ==
  /\ \A k \in DOMAIN log :
       IsProgress(log[k]) =>
         IF k = 1
         THEN log[k] = Entry("chat.postMessage", "step", 0, "", log[k].delivered)
         ELSE log[k].api = "chat.update"
  /\ \A k \in DOMAIN log : ~IsProgress(log[k]) => k > 1 /\ log[k].api = "chat.postMessage"
  /\ \A j, k \in DOMAIN log :
       (j < k /\ log[j].kind = "step" /\ log[k].kind = "step") => log[j].arg <= log[k].arg
  /\ \A k \in DOMAIN log : log[k].kind \in TerminalKinds => k = Len(log)

C29_Witness ==
  /\ pc = "end"
  /\ outcome = "FallbackDone"
  /\ Last(log).kind = "done (fallback)"
  /\ \A k \in DOMAIN log : log[k].delivered
  /\ \E k \in DOMAIN log : log[k].kind = "permalink"
  /\ Cardinality({k \in DOMAIN log : log[k] = Step(3, TRUE)}) >= 2
  /\ Cardinality({k \in DOMAIN log : log[k] = Step(6, TRUE)}) = 2

\* ------------------------------------------------------------ two requests
\* Two export_pdf shortcuts handled by one process.  A handler runs until it
\* awaits; the event loop may then resume the other.  Every variable of the
\* handler is declared inside its closure (src/src/index.ts:348-675), so each
\* request has its own; the module level holds only constants (ADD_SPANISH).

\* the locals of the running request
Running ==
  [pc |-> pc, thrown |-> thrown, log |-> log, messages |-> messages, i |-> i,
   byteLen |-> byteLen, sent |-> sent, calls |-> calls, attached |-> attached,
   outcome |-> outcome, failedStage |-> failedStage, err |-> err, groups |-> groups,
   idx |-> idx, page |-> page, y |-> y, placed |-> placed, hLeft |-> hLeft,
   fetches |-> fetches, lastFetch |-> lastFetch]

\* a request whose handler has not made its first call
Fresh ==
  [pc |-> "ix_start", thrown |-> FALSE, log |-> <<>>, messages |-> <<>>, i |-> 0,
   byteLen |-> 0, sent |-> <<>>, calls |-> NoCalls, attached |-> 0,
   outcome |-> "none", failedStage |-> "none", err |-> "", groups |-> <<>>,
   idx |-> 0, page |-> 0, y |-> 0, placed |-> <<>>, hLeft |-> 0,
   fetches |-> <<>>, lastFetch |-> NoFetch]

\* the threads the two requests are made on: one without messages, and one
\* message with three images
TwoThreads ==
  {<<>>,
   <<Msg(<<30, 0, 30, 0, 30>>, <<File(11, TRUE), File(12, TRUE), File(13, TRUE)>>)>>}

InitTwo ==
  /\ pc = "ix_start"
  /\ thrown = FALSE
  /\ log = <<>>
  /\ messages = <<>>
  /\ imgs = <<>>
  /\ i = 0
  /\ cells = <<>>
  /\ col = 0
  /\ curY = 0
  /\ pages = 0
  /\ lastFetch = NoFetch
  /\ byteLen = 0
  /\ reserved = 0
  /\ sent = <<>>
  /\ dlOk = FALSE
  /\ permalink = FALSE
  /\ fid = FALSE
  /\ calls = NoCalls
  /\ lastPoll = NoPoll
  /\ matched = FALSE
  /\ sleeps = 0
  /\ attached = 0
  /\ outcome = "none"
  /\ failedStage = "none"
  /\ err = ""
  /\ ADD_SPANISH \in BOOLEAN
  /\ groups = <<>>
  /\ idx = 0
  /\ page = 0
  /\ y = 0
  /\ placed = <<>>
  /\ hLeft = 0
  /\ fetches = <<>>
  /\ nextY = 0
  /\ xGroup = 0
  /\ wrapIn = NoWrap
  /\ wrapOut = <<>>
  /\ scaleIn = <<0, 0>>
  /\ scaleOut = <<>>
  /\ nameIn = <<>>
  /\ nameOut = <<>>
  /\ active = 1
  /\ parked = Fresh
  /\ followIn = NoFollowUp
  /\ followOut = <<>>
  /\ sigIn = NoRequest
  /\ sigOut = <<>>

\* mutant: `y` is declared at module level, one cursor for every request
cursorOf_Shared(r) == y

\* `let y` of the request r
cursorOf(r) == r.y

\* The running handler is waiting on a call and the event loop resumes the
\* other request: each handler goes on with its own locals.
Switch ==
  /\ parked.pc \notin {"none", "end"}
  /\ active' = 3 - active
  /\ parked' = Running
  /\ pc' = parked.pc
  /\ thrown' = parked.thrown
  /\ log' = parked.log
  /\ messages' = parked.messages
  /\ i' = parked.i
  /\ byteLen' = parked.byteLen
  /\ sent' = parked.sent
  /\ calls' = parked.calls
  /\ attached' = parked.attached
  /\ outcome' = parked.outcome
  /\ failedStage' = parked.failedStage
  /\ err' = parked.err
  /\ groups' = parked.groups
  /\ idx' = parked.idx
  /\ page' = parked.page
  /\ y' = cursorOf(parked)
  /\ placed' = parked.placed
  /\ hLeft' = parked.hLeft
  /\ fetches' = parked.fetches
  /\ lastFetch' = parked.lastFetch
  /\ UNCHANGED <<p4rest, ADD_SPANISH, p3only, wrapping, scaling, naming, following,
                 signing>>

\* conversations.replies of the running request, on one of the two threads
TwoReplies == IxReplies /\ messages' \in TwoThreads

\* a step of the running request's handler, or the other request resumed
NextTwo ==
  \/ IxStart \/ IxUpdReading \/ TwoReplies \/ IxUpdGrouping \/ IxUpdNoImages
  \/ IxUpdBuilding \/ IxLeft \/ IxRight \/ IxSave
  \/ IxUpdUploading \/ IxUpload \/ IxUpdFailed \/ IxUpdDone
  \/ Switch

SpecTwo == InitTwo /\ [][NextTwo]_vars

\* ------------------------------------------------------------ C30
\* what the collaborators have answered to request r so far: the thread, the
\* translations, which notifications were delivered, what each tile's
\* download and decoding gave, the saved bytes, and the upload's answer (an
\* error code, or the document attached)
IsTile(pl) == pl.kind \in TileKinds
TileResult(pl) == [kind |-> pl.kind, ref |-> pl.ref, w |-> pl.w, h |-> pl.h]
Responses(r) ==
  LET tiles == SelectSeq(r.placed, IsTile)
  IN [messages |-> r.messages,
      groups |-> r.groups,
      delivered |-> [k \in DOMAIN r.log |-> r.log[k].delivered],
      tiles |-> [k \in DOMAIN tiles |-> TileResult(tiles[k])],
      fetches |-> r.fetches,
      lastFetch |-> r.lastFetch,
      byteLen |-> r.byteLen,
      err |-> r.err,
      uploads |-> r.calls.uploadV2,
      attached |-> r.attached]

InLayout(r) == r.pc \in {"ix_left", "ix_right", "ix_save"}

\* the two requests are at the same await and got the same answers
SameResponses ==
  /\ parked.pc = pc
  /\ Responses(parked) = Responses(Running)
  /\ InLayout(parked) \/ parked.page = page

\* C30: two requests interleaved at every await share no mutable state: a
\* step of one leaves the locals of the other as they were, a resumed request
\* goes on from exactly the locals it was parked with, and two requests that
\* got the same collaborator responses have the same pages, cursor and
\* outcome however their steps were interleaved.
C30_RequestsAreIndependent ==
  /\ [](SameResponses => parked = Running)
  /\ [][/\ active' = active => parked' = parked
        /\ active' # active => (parked' = Running /\ Running' = parked)]_vars

C30_Witness ==
  /\ active = 2
  /\ pc = "ix_save"
  /\ SameResponses
  /\ page = 1
  /\ Cardinality({n \in DOMAIN placed : IsTile(placed[n])}) = 3
  /\ \E n \in DOMAIN placed : placed[n].kind = "[download failed]"

\* ------------------------------------------------------------ C31
\* C31: in the layout of part_004 the decoders are tried in the order JPEG
\* then PNG, PNG only after JPEG failed; an image is placed when either
\* decoded it, "[unsupported image format]" only when both failed, and
\* "[failed to download image]" only when the fetch returned null (and then no
\* decoder is tried).
C31_JpegThenPng ==
  /\ \A n \in DOMAIN cells :
       LET c == cells[n]
       IN /\ c.tried \in {<<>>, <<"jpg">>, <<"jpg", "png">>}
          /\ c.kind \in {"image", "[unsupported image format]", "[failed to download image]"}
          /\ c.tried = <<"jpg">> => c.kind = "image"
          /\ c.kind = "[unsupported image format]" => c.tried = <<"jpg", "png">>
          /\ c.kind = "[failed to download image]" <=> c.tried = <<>>
  /\ (cells # <<>> /\ lastFetch # NoFetch) =>
       (Last(cells).kind = "[failed to download image]" <=> lastFetch.out = "null")

C31_Witness ==
  /\ \E n \in DOMAIN cells : cells[n].kind = "image" /\ cells[n].tried = <<"jpg", "png">>
  /\ \E n \in DOMAIN cells : cells[n].kind = "image" /\ cells[n].tried = <<"jpg">>
  /\ \E n \in DOMAIN cells : cells[n].kind = "[unsupported image format]"
  /\ Last(cells).kind = "[failed to download image]"
  /\ lastFetch.res = "notok"

\* ------------------------------------------------------------ C32
\* the last poll left the loop by an exception of files.info or of the download
PollRaised == lastPoll.info = "raise" \/ lastPoll.res = "raise"

\* C32 (as stated): the fallback upload is started only when all 8 polls were
\* performed and none observed a length match; a poll that fails, also one
\* whose files.info or download raises, does not end the polling while
\* attempts remain.
C32_FallbackOnlyAfterAllPolls ==
  pc = "upd6b" =>
    /\ ~matched
    /\ calls.info = VerifyAttempts
    /\ sleeps = VerifyAttempts

\* C32 (amended): the fallback is started only when no poll observed a length
\* match and either all 8 polls were performed or a poll's files.info or
\* download raised; a poll that fails without raising does not end the polling
\* while attempts remain.
C32_FallbackAfterAllPollsOrRaise ==
  pc = "upd6b" =>
    /\ ~matched
    /\ ~dlOk
    /\ IF PollRaised
       THEN calls.info <= VerifyAttempts /\ sleeps = calls.info - 1
       ELSE calls.info = VerifyAttempts /\ sleeps = VerifyAttempts

C32_Witness ==
  /\ pc = "upd6b"
  /\ ~PollRaised
  /\ calls.info = VerifyAttempts
  /\ calls.fetch = VerifyAttempts
  /\ lastPoll.res = "ok"

\* ------------------------------------------------------------ C33
\* the caption lines of the group being laid out: the last placements made
\* before its first image
CaptionLinesOf(k) ==
  LET n == Len(wrapText(groups[k].caption, colW, p4_maxCaptionLines))
  IN {m \in DOMAIN placed : m > Len(placed) - n}

\* C33: in the two-column layout of part_003 every caption line and every
\* image of a group is drawn at the x offset of the column that col
\* designates at the moment of drawing, on the current page, at or below the
\* cursor's top: after ensureSpace advanced, the caption and the first image
\* are in the new column, never in the previous column's x range.
C33_DrawnInCursorColumn ==
  /\ pc = "p3_first" =>
       /\ xGroup = p3_colX(col)
       /\ nextY <= curY
       /\ \A m \in CaptionLinesOf(i) :
            /\ placed[m].kind = "caption"
            /\ placed[m].x = p3_colX(col)
            /\ placed[m].page = page
            /\ placed[m].y <= curY
  /\ pc = "p3_next" => nextY <= curY

\* ------------------------------------------------------------ cell layout
\* The build loop of part_004 on threads whose messages carry one image each
\* and a caption of one line or of three.
CellThreads ==
  UNION { [1..n -> {<<3>>, <<30, 0, 30, 0, 30>>}] : n \in 0..MaxImages }

\* conversations.replies handing back such a thread
CellReplies ==
  /\ pc = "replies"
  /\ \/ /\ \E ts \in CellThreads :
             messages' = [k \in DOMAIN ts |-> Msg(ts[k], <<File(10 * k + 1, TRUE)>>)]
        /\ pc' = "upd2"
        /\ thrown' = FALSE
     \/ /\ Throw
        /\ UNCHANGED messages
  /\ UNCHANGED <<log, imgs, build, upload, verify, result, ixonly>>

NextCells ==
  \/ Start \/ UpdReading \/ CellReplies \/ UpdCollecting \/ UpdNoImages
  \/ UpdBuilding \/ Download \/ UpdProgress \/ Save

SpecCells == Init /\ [][NextCells]_vars

\* ------------------------------------------------------------ C34
\* the lowest extent of a cell: the bottom edge of its image, or the baseline
\* of its fallback text
CellBottom(c) == c.y

\* C34: in the two-column cell layout of part_004 consecutive rows of a page
\* never overlap: a cell of a later row starts at or below the lowest extent
\* (caption block plus image) of every cell of the rows above it on the page.
C34_RowsDoNotOverlap ==
  \A n, m \in DOMAIN cells :
    (n < m /\ cells[n].page = cells[m].page /\ cells[m].top # cells[n].top) =>
      cells[m].top <= CellBottom(cells[n])

\* ------------------------------------------------------------ C35
\* the collection (grouping) step has run on a thread without an image file
NoGroup ==
  /\ Len(log) >= 3
  /\ log[3] = Step(2, TRUE)
  /\ TotalImages(messages) = 0

\* C35: when grouping yields no group the run ends at once with the one
\* notification "No images found in this thread.": no image is fetched, no
\* page is laid out, no document is encoded, and no reserve, transfer,
\* finalize or upload call is made.
C35_NoImagesEndsAtOnce ==
  NoGroup =>
    /\ outcome = "NoImages"
    /\ imgs = <<>> /\ groups = <<>>
    /\ calls = NoCalls
    /\ lastFetch = NoFetch /\ fetches = <<>>
    /\ cells = <<>> /\ placed = <<>> /\ pages = 0 /\ page = 0
    /\ byteLen = 0 /\ reserved = 0
    /\ sent = <<>> /\ attached = 0
    /\ Len(log) <= 4
    /\ Len(log) = 4 => (log[4].kind = "noimages" /\ log[4].api = "chat.update" /\ pc = "end")
    /\ Len(log) = 3 => pc \in {"upd_noimages", "ix_upd_noimages"}

C35_Witness ==
  /\ NoGroup
  /\ pc = "end"
  /\ ~thrown
  /\ Len(messages) = MaxMsgs
  /\ \E k \in DOMAIN messages : messages[k].files # <<>>
  /\ Last(log) = Entry("chat.update", "noimages", 0, "", TRUE)

(***************************************************************************)
(* follow_up_submit (src/src/index.ts 688-740, 809-956).                   *)
(*                                                                         *)
(* A Date is its instant in milliseconds.  Instant 0 is a Thursday 00:00   *)
(* UTC, as the epoch is.  The fields getDay, getHours, getMinutes,         *)
(* setDate and setHours are read and written in the zone of the process,   *)
(* `off' hours from UTC; Intl's America/Los_Angeles wall clock is `la'     *)
(* hours from UTC (-8 in winter, -7 in summer).                            *)
(***************************************************************************)
MsPerSec == 1000
Minute == 60 * MsPerSec
Hour == 60 * Minute
Day == 24 * Hour

\* everything the export handlers own
exporting == <<pc, thrown, log, thread, build, upload, verify, result, ADD_SPANISH,
               groups, idx, page, y, placed, hLeft, fetches, p3only, conc, wrapping,
               scaling, naming>>

localMs(d, off) == d + off * Hour
\* 0 = Sunday; day 0 is a Thursday (4)
getDay(d, off) == (4 + (localMs(d, off) \div Day)) % 7
getHours(d, off) == (localMs(d, off) % Day) \div Hour
getMinutes(d, off) == (localMs(d, off) % Hour) \div Minute
\* d.setDate(d.getDate() + k)
setDate(d, k) == d + k * Day
\* d.setHours(h, m, 0, 0)
setHours(d, off, h, m) == d - (localMs(d, off) % Day) + h * Hour + m * Minute

\* the Los Angeles wall clock to the second, read back as if it were -08:00
toPST(dateUTC, la) == (dateUTC - (dateUTC % MsPerSec)) + (la + 8) * Hour

\* the loop of addBusinessDaysPST has run k times when `days' of the days
\* d+1 .. d+k are neither Sunday (0) nor Saturday (6) and day d+k is one of them
addBusinessDaysPST(startUTC, days, la, off) ==
  LET d == toPST(startUTC, la)
      business(j) == getDay(setDate(d, j), off) \notin {0, 6}
      added(k) == Cardinality({ j \in 1..k : business(j) })
      k == CHOOSE n \in 1..7 : business(n) /\ added(n) = days
  IN  setDate(d, k)

upcomingFridayAt4pmPST(fromUTC, la, off) ==
  LET d == toPST(fromUTC, la)
      dow == getDay(d, off)
      daysToFri == (5 - dow + 7) % 7
  IN  setHours(setDate(d, daysToFri), off, 16, 0)

pstDateToUnix(dPST) == dPST \div MsPerSec

targetLocal(in) ==
  IF in.choice = "2bd"
  THEN setHours(addBusinessDaysPST(in.nowUTC, 2, in.la, in.off), in.off,
                getHours(in.nowUTC, in.off), getMinutes(in.nowUTC, in.off))
  ELSE IF in.choice = "eow"
  THEN upcomingFridayAt4pmPST(in.nowUTC, in.la, in.off)
  ELSE setHours(addBusinessDaysPST(in.nowUTC, 1, in.la, in.off), in.off,
                getHours(in.nowUTC, in.off), getMinutes(in.nowUTC, in.off))

minFuture(in) == (in.dateNow \div MsPerSec) + 60

post_at_Unclamped(in) == pstDateToUnix(targetLocal(in))

post_at(in) ==
  IF pstDateToUnix(targetLocal(in)) < minFuture(in)
  THEN minFuture(in)
  ELSE pstDateToUnix(targetLocal(in))

\* the moments a submission arrives: every day of one week, at UTC hours
\* around midnight, the working day and 4 PM of either zone, at the start,
\* the middle and the last millisecond of the hour
FollowHours == {0, 1, 7, 8, 15, 16, 17, 23}
FollowWithin == {0, 30 * Minute - 1, Hour - 1}
FollowNows ==
  { dd * Day + hh * Hour + w : dd \in 7..13, hh \in FollowHours, w \in FollowWithin }
\* the process runs on Los Angeles time or on UTC
FollowZones == {<<-8, -8>>, <<-8, 0>>, <<-7, -7>>, <<-7, 0>>}
FollowInputs ==
  { [choice |-> c, nowUTC |-> n, dateNow |-> n + e, la |-> z[1], off |-> z[2]] :
      c \in {"1bd", "2bd", "eow"}, n \in FollowNows, e \in {0, 1}, z \in FollowZones }

Submitted == [at |-> "submitted", post_at |-> 0, made |-> <<>>]

Made(api, ok) == [api |-> api, ok |-> ok]

InitFollowUp ==
  /\ pc = "follow_up_submit"
  /\ thrown = FALSE
  /\ log = <<>>
  /\ messages = <<>>
  /\ imgs = <<>>
  /\ i = 0
  /\ cells = <<>>
  /\ col = 0
  /\ curY = 0
  /\ pages = 0
  /\ lastFetch = NoFetch
  /\ byteLen = 0
  /\ reserved = 0
  /\ sent = <<>>
  /\ dlOk = FALSE
  /\ permalink = FALSE
  /\ fid = FALSE
  /\ calls = NoCalls
  /\ lastPoll = NoPoll
  /\ matched = FALSE
  /\ sleeps = 0
  /\ attached = 0
  /\ outcome = "none"
  /\ failedStage = "none"
  /\ err = ""
  /\ ADD_SPANISH = FALSE
  /\ groups = <<>>
  /\ idx = 0
  /\ page = 0
  /\ y = 0
  /\ placed = <<>>
  /\ hLeft = 0
  /\ fetches = <<>>
  /\ nextY = 0
  /\ xGroup = 0
  /\ wrapIn = NoWrap
  /\ wrapOut = <<>>
  /\ scaleIn = <<0, 0>>
  /\ scaleOut = <<>>
  /\ nameIn = <<>>
  /\ nameOut = <<>>
  /\ active = 1
  /\ parked = NoRequest
  /\ followIn \in FollowInputs
  /\ followOut = Submitted
  /\ sigIn = NoRequest
  /\ sigOut = <<>>

\* await ack(), the metadata, the choice and the computation of post_at
FollowCompute ==
  /\ followOut # <<>>
  /\ followOut.at = "submitted"
  /\ followOut' = [followOut EXCEPT !.at = "getPermalink", !.post_at = post_at(followIn)]
  /\ UNCHANGED <<exporting, followIn, signing>>

\* try { await client.chat.getPermalink(...) } catch { /* ignore */ }
FollowPermalink ==
  /\ followOut # <<>>
  /\ followOut.at = "getPermalink"
  /\ \E ok \in BOOLEAN :
       followOut' = [followOut EXCEPT !.at = "open",
                                      !.made = Append(@, Made("getPermalink", ok))]
  /\ UNCHANGED <<exporting, followIn, signing>>

\* await client.conversations.open(...): a rejection goes to the outer catch
FollowOpen ==
  /\ followOut # <<>>
  /\ followOut.at = "open"
  /\ \E ok \in BOOLEAN :
       followOut' = [followOut EXCEPT !.at = IF ok THEN "schedule" ELSE "caught",
                                      !.made = Append(@, Made("open", ok))]
  /\ UNCHANGED <<exporting, followIn, signing>>

\* await client.chat.scheduleMessage({ channel: dm_channel, post_at, text })
FollowSchedule ==
  /\ followOut # <<>>
  /\ followOut.at = "schedule"
  /\ \E ok \in BOOLEAN :
       followOut' = [followOut EXCEPT !.at = IF ok THEN "ephemeral" ELSE "caught",
                                      !.made = Append(@, Made("scheduleMessage", ok))]
  /\ UNCHANGED <<exporting, followIn, signing>>

FollowEphemeral_AlwaysDM ==
  /\ followOut # <<>>
  /\ followOut.at = "ephemeral"
  /\ \E ok \in BOOLEAN :
       followOut' = [followOut EXCEPT !.at = "dm",
                                      !.made = Append(@, Made("postEphemeral", ok))]
  /\ UNCHANGED <<exporting, followIn, signing>>

\* try { await client.chat.postEphemeral(...); ephemeralWorked = true }
\* catch { ephemeralWorked = false }
FollowEphemeral ==
  /\ followOut # <<>>
  /\ followOut.at = "ephemeral"
  /\ \E ok \in BOOLEAN :
       followOut' = [followOut EXCEPT !.at = IF ok THEN "done" ELSE "dm",
                                      !.made = Append(@, Made("postEphemeral", ok))]
  /\ UNCHANGED <<exporting, followIn, signing>>

\* if (!ephemeralWorked) await client.chat.postMessage({ channel: dm_channel, ... })
FollowDM ==
  /\ followOut # <<>>
  /\ followOut.at = "dm"
  /\ \E ok \in BOOLEAN :
       followOut' = [followOut EXCEPT !.at = IF ok THEN "done" ELSE "caught",
                                      !.made = Append(@, Made("postMessage", ok))]
  /\ UNCHANGED <<exporting, followIn, signing>>

NextFollowUp ==
  \/ FollowCompute
  \/ FollowPermalink
  \/ FollowOpen
  \/ FollowSchedule
  \/ FollowEphemeral
  \/ FollowDM

SpecFollowUp == InitFollowUp /\ [][NextFollowUp]_vars

\* ------------------------------------------------------------ C36
Computed == followOut # <<>> /\ followOut.at # "submitted"

\* C36: whatever the choice and the moment, once post_at is computed it is
\* at least 60 seconds after the clock reading of the clamp, in Unix seconds
C36_PostAtSixtySecondsAhead ==
  Computed => followOut.post_at >= (followIn.dateNow \div MsPerSec) + 60

\* the target lay before now + 60 and was replaced, and the message was scheduled
C36_Witness ==
  /\ Computed
  /\ post_at_Unclamped(followIn) < minFuture(followIn)
  /\ followOut.post_at = minFuture(followIn)
  /\ \E n \in DOMAIN followOut.made : followOut.made[n] = Made("scheduleMessage", TRUE)

\* ------------------------------------------------------------ C37
\* the instant p (Unix seconds) reads Friday 16:00:00 on the Los Angeles clock
FridayFourPM(p, la) ==
  /\ getDay(p * MsPerSec, la) = 5
  /\ getHours(p * MsPerSec, la) = 16
  /\ localMs(p * MsPerSec, la) % Hour = 0

\* C37: for the choice "eow", upcomingFridayAt4pmPST returns a Friday 16:00
\* (Los Angeles) at or after the current time, and that value is post_at
C37_EndOfWeekIsFridayFourPM ==
  (Computed /\ followIn.choice = "eow") =>
    /\ FridayFourPM(pstDateToUnix(targetLocal(followIn)), followIn.la)
    /\ targetLocal(followIn) >= followIn.nowUTC - (followIn.nowUTC % MsPerSec)
    /\ followOut.post_at = pstDateToUnix(targetLocal(followIn))

\* ------------------------------------------------------------ C38
MadeOk(api) == \E n \in DOMAIN followOut.made : followOut.made[n] = Made(api, TRUE)
Tried(api) == \E n \in DOMAIN followOut.made : followOut.made[n].api = api
Before(a, b) ==
  \A n \in DOMAIN followOut.made :
    followOut.made[n].api = b =>
      \E m \in 1..(n - 1) : followOut.made[m] = a

\* C38: a confirmation is attempted only after scheduleMessage succeeded;
\* the DM confirmation only after the ephemeral one failed; each at most
\* once; never both delivered; none when scheduling failed
C38_OneConfirmationAfterScheduling ==
  followOut # <<>> =>
    /\ Before(Made("scheduleMessage", TRUE), "postEphemeral")
    /\ Before(Made("scheduleMessage", TRUE), "postMessage")
    /\ Before(Made("postEphemeral", FALSE), "postMessage")
    /\ ~(MadeOk("postEphemeral") /\ MadeOk("postMessage"))
    /\ Cardinality({ n \in DOMAIN followOut.made :
                       followOut.made[n].api \in {"postEphemeral", "postMessage"}
                       /\ followOut.made[n].ok }) <= 1
    /\ (followOut.at = "done") => (MadeOk("postEphemeral") \/ MadeOk("postMessage"))
    /\ (followOut.at = "ephemeral") => MadeOk("scheduleMessage")

\* the ephemeral confirmation failed and the DM confirmation was delivered
C38_Witness ==
  /\ followOut # <<>>
  /\ followOut.at = "done"
  /\ ~MadeOk("postEphemeral")
  /\ MadeOk("postMessage")

(***************************************************************************)
(* POST /slack/commands (src/src/index.ts 39-78).                          *)
(*                                                                         *)
(* A signature header is absent or a sequence of characters; a timestamp   *)
(* header is absent, empty, text that is no number, or a number.           *)
(* The HMAC-SHA256 hex digest (64 characters) is a digest of HexLen        *)
(* characters that depends on the timestamp header and on the body.        *)
(***************************************************************************)
HexLen == 2
fiveMinutes == 60 * 5

NoHeader == [given |-> FALSE, chars |-> <<>>]
Header(chars) == [given |-> TRUE, chars |-> chars]
Stamp(kind, n) == [kind |-> kind, n |-> n]

Collate == <<"c">>
OtherCommand == <<"o">>

\* Number(ts) is NaN for text that is not a number
IsNaN(ts) == ts.kind = "text"
\* Math.abs
abs(n) == IF n < 0 THEN 0 - n ELSE n

\* createHmac("sha256", secret).update(base).digest("hex")
hmac(ts, body) ==
  [n \in 1..HexLen |->
     IF n = 1 THEN (IF body = Collate THEN "a" ELSE "b")
     ELSE IF ts.kind = "number" THEN (IF ts.n % 2 = 0 THEN "0" ELSE "1") ELSE "f"]

expected(req) == <<"v", "0", "=">> \o hmac(req.ts, req.rawBody)

\* crypto.timingSafeEqual(a, b): a RangeError when the byte lengths differ
timingSafeEqual(a, b) ==
  IF Len(a) # Len(b) THEN [kind |-> "throw", value |-> "RangeError"]
  ELSE [kind |-> "return", value |-> (a = b)]

Returned(v) == [kind |-> "return", value |-> v]

verifySlackSig(req) ==
  IF req.ts.kind \in {"absent", "empty"} \/ ~req.sig.given \/ req.sig.chars = <<>>
  THEN Returned(FALSE)
  ELSE IF ~IsNaN(req.ts) /\ abs(req.now - req.ts.n) > fiveMinutes
  THEN Returned(FALSE)
  ELSE timingSafeEqual(expected(req), req.sig.chars)

\* the signatures a request can carry for its timestamp and body: none, the
\* empty one, the expected one, one of the same length that differs in its
\* last character, a shorter and a longer one
SigsFor(ts, body) ==
  LET e == <<"v", "0", "=">> \o hmac(ts, body)
  IN  { NoHeader, Header(<<>>), Header(e), Header([e EXCEPT ![Len(e)] = "x"]),
        Header(SubSeq(e, 1, Len(e) - 1)), Header(e \o <<"0">>) }

SigNows == {1000, 1001}
SigStamps(now) ==
  { Stamp("absent", 0), Stamp("empty", 0), Stamp("text", 0) }
  \cup { Stamp("number", now + d) :
           d \in {0 - fiveMinutes - 1, 0 - fiveMinutes, 0, fiveMinutes, fiveMinutes + 1} }

SigRequests ==
  UNION { { [now |-> n, ts |-> t, sig |-> s, rawBody |-> b] : s \in SigsFor(t, b) } :
            n \in SigNows, t \in UNION { SigStamps(k) : k \in SigNows },
            b \in {Collate, OtherCommand} }

Received == [at |-> "received", verified |-> Returned(FALSE), status |-> 0, sent |-> "none"]

InitSig ==
  /\ pc = "commands"
  /\ thrown = FALSE
  /\ log = <<>>
  /\ messages = <<>>
  /\ imgs = <<>>
  /\ i = 0
  /\ cells = <<>>
  /\ col = 0
  /\ curY = 0
  /\ pages = 0
  /\ lastFetch = NoFetch
  /\ byteLen = 0
  /\ reserved = 0
  /\ sent = <<>>
  /\ dlOk = FALSE
  /\ permalink = FALSE
  /\ fid = FALSE
  /\ calls = NoCalls
  /\ lastPoll = NoPoll
  /\ matched = FALSE
  /\ sleeps = 0
  /\ attached = 0
  /\ outcome = "none"
  /\ failedStage = "none"
  /\ err = ""
  /\ ADD_SPANISH = FALSE
  /\ groups = <<>>
  /\ idx = 0
  /\ page = 0
  /\ y = 0
  /\ placed = <<>>
  /\ hLeft = 0
  /\ fetches = <<>>
  /\ nextY = 0
  /\ xGroup = 0
  /\ wrapIn = NoWrap
  /\ wrapOut = <<>>
  /\ scaleIn = <<0, 0>>
  /\ scaleOut = <<>>
  /\ nameIn = <<>>
  /\ nameOut = <<>>
  /\ active = 1
  /\ parked = NoRequest
  /\ followIn = NoFollowUp
  /\ followOut = <<>>
  /\ sigIn \in SigRequests
  /\ sigOut = Received

\* app.post("/slack/commands", async (req, res) => { ... }): the handler has
\* no await.  When verifySlackSig raises, the async handler's promise rejects:
\* the route sends nothing (or, where the framework forwards the rejection to
\* its error handler, 500); the command is not processed.
Commands ==
  /\ sigOut # <<>>
  /\ sigOut.at = "received"
  /\ LET v == verifySlackSig(sigIn)
     IN  IF v.kind = "throw"
         THEN \E st \in {0, 500} :
                sigOut' = [at |-> "rejected", verified |-> v, status |-> st, sent |-> "none"]
         ELSE IF ~v.value
         THEN sigOut' = [at |-> "answered", verified |-> v, status |-> 401,
                         sent |-> "bad sig"]
         ELSE IF sigIn.rawBody # Collate
         THEN sigOut' = [at |-> "answered", verified |-> v, status |-> 200, sent |-> ""]
         ELSE sigOut' = [at |-> "answered", verified |-> v, status |-> 200,
                         sent |-> "ephemeral"]
  /\ UNCHANGED <<exporting, following, sigIn>>

NextSig == Commands

SpecSig == InitSig /\ [][NextSig]_vars

\* ------------------------------------------------------------ C39
Handled == sigOut # <<>> /\ sigOut.at # "received"

\* the request must be refused: a header is missing, the timestamp is more
\* than five minutes from now, or the signature is not the expected one
MustRefuse(req) ==
  \/ req.ts.kind = "absent"
  \/ ~req.sig.given
  \/ req.ts.kind = "number"
     /\ (req.now - req.ts.n > fiveMinutes \/ req.ts.n - req.now > fiveMinutes)
  \/ req.sig.chars # expected(req)

\* C39: verifySlackSig returns a boolean and never raises; a request that
\* must be refused is answered 401 "bad sig"; only a request whose signature
\* is the expected one is processed
C39_BadSignatureIsRefused ==
  Handled =>
    /\ sigOut.verified.kind = "return"
    /\ MustRefuse(sigIn) => (sigOut.status = 401 /\ sigOut.sent = "bad sig")
    /\ sigOut.status = 200 => (sigIn.sig.given /\ sigIn.sig.chars = expected(sigIn))

====
